---- MODULE Spec2Model ----
(***************************************************************************)
(* Model of the github-to-jira synchronisation action.                     *)
(*                                                                         *)
(* One run of the action is Main.start: Configuration.init merges the      *)
(* persisted sync-state.yaml into the configured afterDate of each sync    *)
(* project, Sync.start walks the sync projects in order, and for each one  *)
(* SyncRepository.start checks Jira, fetches the recently updated GitHub   *)
(* issues page by page, reconciles releases and sprints and then upserts   *)
(* every fetched issue with Jira.createOrUpdateIssue.  Every await of the  *)
(* code is one step of the model; a remote call either answers or rejects. *)
(*                                                                         *)
(* Timestamps are instants (naturals).  GitHub is a list of issues per     *)
(* repository kept in the order of the search (sort:updated-asc).  Jira is *)
(* a list of issues (the key of an issue is its position) and a set of     *)
(* sprint names per board.                                                 *)
(***************************************************************************)
EXTENDS Integers, Sequences, FiniteSets, TLC

\* ------------------------------------------------------------------------
\* Bounds of the model
\* ------------------------------------------------------------------------
NumProjects == 2
MaxIssues == 3
MaxTime == 3
MaxBatchSize == 2
MaxRuns == 2
MaxFailures == 2

\* search(... first: 50 ...): the page size of the GitHub query, scaled down
First == 2

\* calls passed to ThrottleQueue.throttle, and its intervalMs in clock ticks
MaxCalls == 3
IntervalMs == 2

\* rules of an issue type mapping table
MaxRules == 2

\* reconciliations of the same batch, and the ticks of the clock in a day
MaxRounds == 2
TicksPerDay == 2

Projects == 1..NumProjects

Min(a, b) == IF a < b THEN a ELSE b

VARIABLES
    \* --- sync.yaml and sync-state.yaml
    syncYamlAfterDate,  \* syncProjects[p].github.afterDate as configured
    maxBatchSize,       \* syncProjects[p].maxBatchSize
    syncState,          \* sync-state.yaml: [exists, syncProjects]
    \* --- GitHub and Jira
    ghIssues,           \* issues of the repository of p, in search order
    jiraIssues,         \* issues of Jira; key = position
    jiraSprints,        \* sprint names of the sprint board of p
    \* --- Main.start / Sync.start
    pc,                 \* "idle", "sync", "done", "failed"
    cur,                \* index of the project configuration in the loop
    results,            \* SyncProjectResult[] of Sync.start
    startDate,          \* ProjectConfiguration.github.startDate of p
    \* --- SyncRepository.start of the current project
    step,               \* the await the pass is suspended at
    cursor,             \* cursor of doGetIssuesUpdatedAfterBatch
    previousIssues,     \* previousIssues of doGetIssuesUpdatedAfterBatch
    issues,             \* recentIssuesSearch.issues of p
    afterDate,          \* recentIssuesSearch.afterDate of p
    sprints,            \* SyncRepository.#sprints (name -> id)
    idx,                \* position of the for loop over the issues
    attempt,            \* 1: call in the try block, 2: call in the catch block
    issueKey,           \* issueKey of the running createOrUpdateIssue
    \* --- bookkeeping of the environment and of the history
    failures,           \* remote calls rejected so far
    run,                \* runs started so far
    attempted,          \* projects whose pass was started in this run
    clean,              \* no call of a pass of p has ever thrown
    created,            \* issue numbers createIssue was called for in this run
    prevIssues,         \* batch of p in the previous run: [done, issues]
    processed,          \* loop positions createOrUpdateIssue was called for
    otherFailed,        \* loop positions whose call threw without throttling shape
    fetched,            \* projects whose getIssuesUpdatedAfter returned in this run
    fetchedEver,        \* issue numbers that were in some batch of p
    \* --- configuration errors, outputs and Jira calls of a run
    configError,        \* what is wrong with the configuration of p, or "none"
    output,             \* core.setOutput('sync-projects-result'): [set, value]
    written,            \* a call that changes Jira was made in this run
    ungoverned,         \* a call to Jira was made on a client that is no proxy
    \* --- ThrottleQueue
    queue,              \* ThrottleQueue.queue: the wrapped calls, by call number
    isProcessing,       \* ThrottleQueue.isProcessing
    elapsed,            \* Date.now() - lastCallTime, capped at IntervalMs
    timers,             \* pending setTimeout callbacks: ticks left before each is due
    enqueued,           \* calls passed to throttle so far
    enqueuedWhen,       \* what the queue was doing when call c was passed to it
    promise,            \* state of the promise throttle returned for call c
    fnOutcome,          \* what the wrapped function of call c did
    settles,            \* how often resolve or reject was called for call c
    inFlight,           \* calls whose function was started and has not settled
    order,              \* call numbers in the order their functions were started
    gaps,               \* ticks between a start and the start before it, capped
    sinceDispatch,      \* ticks since the latest start, capped at IntervalMs
    completed,          \* call numbers in the order their promises settled
    \* --- SyncRepository.getJiraIssueTypeFromGitHubLabels
    labels,             \* the labels of the GitHub issue
    issueTypeMapping,   \* ProjectConfiguration.issueTypeMapping
    issueTypeDefault,   \* ProjectConfiguration.issueTypeDefault
    issueType,          \* the value returned, "unresolved" before the call
    \* --- SyncRepository.getJiraStatusFromGithubProject
    projectItems,       \* issue.projectItems.projects: [board, status] records
    statusMapping,      \* ProjectConfiguration.statusTypeMapping
    statusDefault,      \* ProjectConfiguration.statusTypeDefault
    jiraStatus,         \* the value returned, "unresolved" before the call
    \* --- Main.doStart
    syncStateYaml,      \* the sync-state.yaml the run has read (lines 42-50)
    \* --- SyncRepository.syncReleases / syncSprints of one project
    ghBatch,            \* recentIssuesSearch.issues
    jiraOffset,         \* ticks the clock of Jira is ahead of UTC
    jiraReleases,       \* the versions of the Jira project; id = position
    jiraBoard,          \* the sprints of the sprint board; id = position
    rstep,              \* the await the reconciliation is suspended at
    round,              \* reconciliations of the batch started so far
    releasesRead,       \* jiraReleases of syncReleases (line 51)
    sprintsRead,        \* jiraSprints of syncSprints (line 138)
    loopAt,             \* position of the running for loop
    fixVersions,        \* SyncRepository.#fixVersions, as [name, id] records
    sprintMap,          \* SyncRepository.#sprints, as [name, id] records
    pendingCreates,     \* createRelease calls that have not settled
    releaseCreates,     \* names createRelease was called with in this round
    releaseUpdates,     \* ids updateRelease was called with in this round
    sprintCreates,      \* names createSprint was called with in this round
    sprintUpdates,      \* ids updateSprint was called with in this round
    fixVersionId,       \* fixVersionId of issueToCreate, by position in the batch
    \* --- the loop body of SyncRepository.start and Jira.createOrUpdateIssue
    ghIssue,            \* the issue of the loop body: [title, labels, projectItems]
    jiraIssue,          \* the Jira issue that carries the globalId of ghIssue
    sprintIds,          \* SyncRepository.#sprints, as [name, id] records
    issueToCreate,      \* issueToCreate of start (lines 279-294)
    ustep,              \* the await the upsert of ghIssue is suspended at
    jiraCalls           \* the calls made to Jira that change it, and the status
                        \* getIssue answered, in the order they were made

cfgVars == <<syncYamlAfterDate, maxBatchSize, syncState>>
remoteVars == <<ghIssues, jiraIssues, jiraSprints>>
mainVars == <<pc, cur, results, startDate>>
passVars == <<step, cursor, previousIssues, issues, afterDate, sprints, idx, attempt, issueKey>>
histVars == <<failures, run, attempted, clean, created, prevIssues, processed, otherFailed,
              fetched, fetchedEver>>
runVars == <<configError, output, written, ungoverned>>
throttleVars == <<queue, isProcessing, elapsed, timers, enqueued, enqueuedWhen, promise, fnOutcome,
                  settles, inFlight, order, gaps, sinceDispatch, completed>>
resolverVars == <<labels, issueTypeMapping, issueTypeDefault, issueType,
                  projectItems, statusMapping, statusDefault, jiraStatus>>
reconcileVars == <<ghBatch, jiraOffset, jiraReleases, jiraBoard, rstep, round,
                   releasesRead, sprintsRead, loopAt, fixVersions, sprintMap,
                   pendingCreates, releaseCreates, releaseUpdates, sprintCreates,
                   sprintUpdates, fixVersionId>>
upsertVars == <<ghIssue, jiraIssue, sprintIds, issueToCreate, ustep, jiraCalls>>
auxVars == <<throttleVars, resolverVars, reconcileVars, upsertVars>>
syncVars == <<cfgVars, remoteVars, mainVars, passVars, histVars, runVars, syncStateYaml>>
vars == <<syncVars, auxVars>>

\* ------------------------------------------------------------------------
\* Configuration
\* ------------------------------------------------------------------------

\* statusTypeMappings of sync.yaml: ordered rules and the default
statusTypeMapping ==
    << [fromGithub |-> "wip", toJira |-> "In Progress"],
       [fromGithub |-> "blocked", toJira |-> "Blocked"] >>
statusTypeDefault == "To Do"

\* String.prototype.toLowerCase on the status names of the model
toLowerCase(s) ==
    CASE s = "To Do" -> "to do"
      [] s = "TO DO" -> "to do"
      [] s = "In Progress" -> "in progress"
      [] s = "IN PROGRESS" -> "in progress"
      [] s = "Blocked" -> "blocked"
      [] OTHER -> s

\* Jira workflow: status of a new issue and the target states of the
\* transitions an issue offers
JiraInitialStatus == "TO DO"
JiraTransitionTargets == {"TO DO", "IN PROGRESS"}

\* Configuration.init: the afterDate of a sync project is overridden by the
\* entry of sync-state.yaml that carries the project's name
LastAfterDate(entries, default) ==
    IF Len(entries) = 0 THEN default ELSE entries[Len(entries)].afterDate

\* the last entry overrides, whatever project it names
OverrideByAnyEntry(yamlAfterDate, state, name) ==
    IF state.exists THEN LastAfterDate(state.syncProjects, yamlAfterDate)
    ELSE yamlAfterDate

OverrideAfterDate(yamlAfterDate, state, name) ==
    IF state.exists
    THEN LastAfterDate(SelectSeq(state.syncProjects,
                                 LAMBDA e : e.syncProjectName = name),
                       yamlAfterDate)
    ELSE yamlAfterDate

\* ------------------------------------------------------------------------
\* GitHub: getIssuesUpdatedAfter / doGetIssuesUpdatedAfterBatch
\* ------------------------------------------------------------------------

\* the search "is:issue sort:updated-asc updated:>startDate"
SearchIssues(all, after) == SelectSeq(all, LAMBDA r : r.updatedAt > after)

\* Array.prototype.slice(0, n)
Slice(s, n) == SubSeq(s, 1, Min(n, Len(s)))

\* lines 183-186: enough entries, return only the first maxBatchNumberIssues
EnoughEntries(all, max) == Len(all) >= max

\* the batch is returned as accumulated, without the slice
TruncateBatchNoSlice(all, max) == all

TruncateBatch(all, max) == Slice(all, max)

\* the start date of an empty batch falls back to the epoch
NextStartDateFromEpoch(start, batch) ==
    IF Len(batch) > 0 THEN batch[Len(batch)].updatedAt ELSE 0

\* getIssuesUpdatedAfter lines 86-90
NextStartDate(start, batch) ==
    IF Len(batch) > 0 THEN batch[Len(batch)].updatedAt ELSE start

\* the sizes a page of the search may have when `remaining' results are left
PageSizes(remaining) ==
    IF remaining = 0 THEN {0} ELSE 1..Min(First, remaining)

Numbers(batch) == {batch[i].number : i \in 1..Len(batch)}

\* ------------------------------------------------------------------------
\* SyncRepository helpers
\* ------------------------------------------------------------------------

\* start line 239: `${globalIdPrefix}-${issue.number}`
GlobalId(p, issue) == <<p, issue.number>>

\* start lines 262-266: the status of the issue on the configured board
RECURSIVE ProjectStatus(_)
ProjectStatus(projects) ==
    IF Len(projects) = 0 THEN "undefined"
    ELSE IF projects[1].board = "configured" THEN projects[1].status
    ELSE ProjectStatus(Tail(projects))

FoldCase(s) == IF s = "WIP" THEN "wip" ELSE s

\* the rules are compared without regard to case
RECURSIVE FirstMatchIgnoreCase(_, _, _)
FirstMatchIgnoreCase(mapping, status, default) ==
    IF Len(mapping) = 0 THEN default
    ELSE IF FoldCase(status) = FoldCase(mapping[1].fromGithub) THEN mapping[1].toJira
    ELSE FirstMatchIgnoreCase(Tail(mapping), status, default)

RECURSIVE FirstMatch(_, _, _)
FirstMatch(mapping, status, default) ==
    IF Len(mapping) = 0 THEN default
    ELSE IF status = mapping[1].fromGithub THEN mapping[1].toJira
    ELSE FirstMatch(Tail(mapping), status, default)

getJiraStatusFromGithubProject(githubStatus) ==
    FirstMatch(statusTypeMapping, githubStatus, statusTypeDefault)

\* start lines 270-274: the sprint id of the record, if its sprint is known
SprintBoardId(known, issue) ==
    IF issue.sprint /= "none" /\ issue.sprint \in known THEN issue.sprint ELSE "none"

SprintTitles(batch) ==
    {batch[i].sprint : i \in 1..Len(batch)} \ {"none"}

\* ------------------------------------------------------------------------
\* Jira
\* ------------------------------------------------------------------------

\* findExistingGithubIssueInJira: key of the first issue that carries a
\* remote link with the globalId (maxResults: 1); 0 when there is none
LinkedKeys(all, globalId) == {k \in 1..Len(all) : globalId \in all[k].links}

SmallestOf(S) == CHOOSE k \in S : \A j \in S : k <= j

\* the search answer is read from the wrong place: never a key
findExistingNeverFound(all, globalId) == 0

findExistingGithubIssueInJira(all, globalId) ==
    IF LinkedKeys(all, globalId) = {} THEN 0 ELSE SmallestOf(LinkedKeys(all, globalId))

NewIssue(globalId) ==
    [createdFor |-> globalId, links |-> {}, edited |-> FALSE,
     status |-> JiraInitialStatus, sprint |-> "none"]

\* getTransitionId: a transition whose target state has the wanted name
HasTransition(targetStatus) ==
    \E t \in JiraTransitionTargets : toLowerCase(t) = toLowerCase(targetStatus)

TransitionTarget(targetStatus) ==
    CHOOSE t \in JiraTransitionTargets : toLowerCase(t) = toLowerCase(targetStatus)

\* ------------------------------------------------------------------------
\* Control of SyncRepository.start
\* ------------------------------------------------------------------------

\* the awaits of createOrUpdateIssue that are calls to Jira
UpsertCalls ==
    {"search", "create", "link", "edit", "getIssue", "getTransitions",
     "doTransition", "sprint"}

\* the two shapes of a rejected call the catch block of start tells apart:
\* HttpException 401 / Unauthorized / ERR_BAD_REQUEST, and anything else
Shapes == {"throttle", "other"}

\* the running createOrUpdateIssue goes on to its next await
Goto(s, key) ==
    /\ step' = s
    /\ issueKey' = key
    /\ UNCHANGED <<pc, idx, attempt, processed, otherFailed>>

\* the for loop of start moves on to position i: createOrUpdateIssue is
\* called for issues[i], or the loop is over and start returns
Continue(i) ==
    /\ idx' = i
    /\ attempt' = 1
    /\ issueKey' = 0
    /\ step' = IF i > Len(issues[cur]) THEN "return" ELSE "search"
    /\ processed' = IF i > Len(issues[cur]) THEN processed
                    ELSE [processed EXCEPT ![cur] = @ \cup {i}]
    /\ UNCHANGED pc

\* an error nothing catches: SyncRepository.start, Sync.start and
\* Main.doStart reject, Main.start reports the failure
Throw ==
    /\ pc' = "failed"
    /\ step' = "none"

\* does the catch block of start (lines 299-316) retry after this error
IsThrottling(shape) == shape = "throttle"

\* createOrUpdateIssue rejected with an error of the given shape
OnUpsertError(shape) ==
    /\ otherFailed' = IF shape = "other"
                      THEN [otherFailed EXCEPT ![cur] = @ \cup {idx}]
                      ELSE otherFailed
    /\ IF attempt = 1
       THEN \* the call of line 298, inside the try block
            IF IsThrottling(shape)
            THEN /\ step' = "cooldown"
                 /\ UNCHANGED <<pc, idx, attempt, issueKey, processed>>
            ELSE Continue(idx + 1)
       ELSE \* the call of line 313, inside the catch block
            /\ Throw
            /\ UNCHANGED <<idx, attempt, issueKey, processed>>

\* the loop goes on while the issue is moved to its sprint
AfterStatusSprintNotAwaited == Continue(idx + 1) /\ UNCHANGED otherFailed

\* start lines 365-371 of createOrUpdateIssue and the end of the loop body
AfterStatus ==
    IF SprintBoardId(sprints, issues[cur][idx]) /= "none"
    THEN Goto("sprint", issueKey)
    ELSE Continue(idx + 1) /\ UNCHANGED otherFailed

NotClean == clean' = [clean EXCEPT ![cur] = FALSE]

\* Jira constructor lines 85-87: the clients the calls of Jira are made on
JiraClient == "Version2Client"

\* ThrottledClient.proxify: a function of a proxy runs inside
\* ThrottleQueue.throttle; a function of any other client runs as called
Governed(client) == client = "ThrottledClient proxy"

\* a call of a method of the Jira client
JiraCall == ungoverned' = (ungoverned \/ ~Governed(JiraClient))

\* ------------------------------------------------------------------------
\* Main.start, Sync.start
\* ------------------------------------------------------------------------

CompletedPass(p) == \E i \in 1..Len(results) : results[i].syncProjectName = p

NoOutput == [set |-> FALSE, value |-> <<>>]

\* what can be wrong with the configuration of a sync project: "mapping" is
\* a mapping table or a default that sync.yaml lacks, "destination" an issue
\* type, component or field that the Jira project lacks
ConfigErrorKinds == {"none", "mapping", "destination"}

\* Configuration.getProjectConfigurations lines 189-203 throws
MappingNotFound == \E p \in Projects : configError[p] = "mapping"

\* Main.doStart up to the first await of the first project's pass, or up
\* to the error getProjectConfigurations throws
MainStart ==
    /\ pc \in {"idle", "done", "failed"}
    /\ run < MaxRuns
    /\ run' = run + 1
    /\ startDate' = [p \in Projects |->
                        OverrideAfterDate(syncYamlAfterDate[p], syncState, p)]
    /\ results' = <<>>
    /\ pc' = IF MappingNotFound THEN "failed" ELSE "sync"
    /\ cur' = 1
    /\ step' = IF MappingNotFound THEN "none" ELSE "initAndCheck"
    /\ cursor' = 0
    /\ previousIssues' = <<>>
    /\ sprints' = {}
    /\ idx' = 0
    /\ attempt' = 1
    /\ issueKey' = 0
    /\ issues' = [p \in Projects |-> <<>>]
    /\ afterDate' = startDate'
    /\ attempted' = IF MappingNotFound THEN {} ELSE {1}
    /\ fetched' = {}
    /\ created' = [p \in Projects |-> {}]
    /\ processed' = [p \in Projects |-> {}]
    /\ otherFailed' = [p \in Projects |-> {}]
    /\ prevIssues' = [p \in Projects |->
                        IF CompletedPass(p)
                        THEN [done |-> TRUE, issues |-> issues[p]]
                        ELSE [done |-> FALSE, issues |-> <<>>]]
    /\ UNCHANGED <<cfgVars, remoteVars, failures, clean, fetchedEver>>
    /\ output' = NoOutput
    /\ written' = FALSE
    /\ ungoverned' = FALSE
    /\ syncStateYaml' = syncState
    /\ UNCHANGED <<configError, auxVars>>

\* the start date is returned again when the write of an issue was skipped
StartReturnsForWritten(recentIssuesSearch, skipped) ==
    IF skipped = {} THEN recentIssuesSearch.afterDate
    ELSE recentIssuesSearch.startDate

\* SyncRepository.start line 319: { afterDate: recentIssuesSearch.afterDate },
\* whatever the positions of the loop whose error was caught
StartReturns(recentIssuesSearch, skipped) == recentIssuesSearch.afterDate

\* SyncRepository.start returns: Sync.start records the result and goes on
\* with the next project configuration, or returns the results
ProjectDone ==
    /\ pc = "sync" /\ step = "return"
    /\ results' = Append(results,
                         [syncProjectName |-> cur,
                          afterDate |-> StartReturns(
                              [afterDate |-> afterDate[cur],
                               startDate |-> startDate[cur]],
                              otherFailed[cur])])
    /\ IF cur < NumProjects
       THEN /\ cur' = cur + 1
            /\ step' = "initAndCheck"
            /\ attempted' = attempted \cup {cur + 1}
       ELSE /\ step' = "write"
            /\ UNCHANGED <<cur, attempted>>
    /\ cursor' = 0
    /\ previousIssues' = <<>>
    /\ sprints' = {}
    /\ idx' = 0
    /\ UNCHANGED <<cfgVars, remoteVars, pc, startDate, issues, afterDate, attempt,
                   issueKey, failures, run, clean, created, prevIssues, processed,
                   otherFailed, fetched, fetchedEver>>
    /\ UNCHANGED <<runVars, syncStateYaml, auxVars>>

\* the results are appended to the entries of the state that was there
SyncStateMerged(syncResult) ==
    [exists |-> TRUE, syncProjects |-> syncState.syncProjects \o syncResult]

\* lines 69-71: syncStateYamlToWrite
SyncStateYamlToWrite(syncResult) == [exists |-> TRUE, syncProjects |-> syncResult]

\* Main.doStart lines 66-75: the results replace sync-state.yaml
WriteState ==
    /\ pc = "sync" /\ step = "write"
    /\ syncState' = SyncStateYamlToWrite(results)
    /\ pc' = "done"
    /\ step' = "none"
    /\ UNCHANGED <<syncYamlAfterDate, maxBatchSize, remoteVars, cur, results,
                   startDate, cursor, previousIssues, issues, afterDate, sprints,
                   idx, attempt, issueKey, histVars>>
    /\ output' = [set |-> TRUE, value |-> results]
    /\ UNCHANGED <<configError, syncStateYaml, written, ungoverned, auxVars>>

\* between two runs the workflow does not restore sync-state.yaml
\* (existsSync('sync-state.yaml') is false at the next start)
StateNotRestored ==
    /\ pc \in {"done", "failed"}
    /\ syncState.exists
    /\ syncState' = [exists |-> FALSE, syncProjects |-> <<>>]
    /\ UNCHANGED <<syncYamlAfterDate, maxBatchSize, remoteVars, mainVars,
                   passVars, histVars>>
    /\ UNCHANGED <<runVars, syncStateYaml, auxVars>>

\* ------------------------------------------------------------------------
\* SyncRepository.start: checks, fetch, reconciliation
\* ------------------------------------------------------------------------

passRest == <<cfgVars, ghIssues, jiraIssues, cur, results, startDate, run,
              attempted, created, prevIssues>>

\* the releases are reconciled before the issues are fetched
InitAndCheckThenSyncReleases ==
    /\ pc = "sync" /\ step = "initAndCheck"
    /\ configError[cur] /= "destination"
    /\ step' = "releases"
    /\ UNCHANGED <<passRest, jiraSprints, pc, cursor, previousIssues, issues,
                   afterDate, sprints, idx, attempt, issueKey, failures, clean,
                   processed, otherFailed, fetched, fetchedEver>>
    /\ JiraCall
    /\ UNCHANGED <<configError, syncStateYaml, output, written, auxVars>>

\* Jira.initAndCheck resolves: the calls answered and the issue types, the
\* component and the fields were found
InitAndCheck ==
    /\ pc = "sync" /\ step = "initAndCheck"
    /\ configError[cur] /= "destination"
    /\ step' = "fetch"
    /\ UNCHANGED <<passRest, jiraSprints, pc, cursor, previousIssues, issues,
                   afterDate, sprints, idx, attempt, issueKey, failures, clean,
                   processed, otherFailed, fetched, fetchedEver>>
    /\ JiraCall
    /\ UNCHANGED <<configError, syncStateYaml, output, written, auxVars>>

\* a remote call of a step of start outside the try block rejects
PassStepFail(s) ==
    /\ pc = "sync" /\ step = s
    /\ failures < MaxFailures
    /\ failures' = failures + 1
    /\ NotClean
    /\ Throw

InitAndCheckFail ==
    /\ PassStepFail("initAndCheck")
    /\ UNCHANGED <<passRest, jiraSprints, cursor, previousIssues, issues,
                   afterDate, sprints, idx, attempt, issueKey,
                   processed, otherFailed, fetched, fetchedEver>>
    /\ JiraCall
    /\ UNCHANGED <<configError, syncStateYaml, output, written, auxVars>>

\* Jira.initAndCheck lines 119-153 throws: an issue type, the component or
\* a field is not found in Jira
InitAndCheckNotFound ==
    /\ pc = "sync" /\ step = "initAndCheck"
    /\ configError[cur] = "destination"
    /\ NotClean
    /\ Throw
    /\ JiraCall
    /\ UNCHANGED <<passRest, jiraSprints, cursor, previousIssues, issues,
                   afterDate, sprints, idx, attempt, issueKey, failures,
                   processed, otherFailed, fetched, fetchedEver>>
    /\ UNCHANGED <<configError, syncStateYaml, output, written, auxVars>>

\* one page of doGetIssuesUpdatedAfterBatch; the last one makes
\* getIssuesUpdatedAfter return
FetchPage ==
    /\ pc = "sync" /\ step = "fetch"
    /\ LET found == SearchIssues(ghIssues[cur], startDate[cur])
       IN \E n \in PageSizes(Len(found) - cursor) :
          LET currentEntries == SubSeq(found, cursor + 1, cursor + n)
              hasNextPage == cursor + n < Len(found)
              allGraphQlResponse == previousIssues \o currentEntries
              max == maxBatchSize[cur]
              more == ~EnoughEntries(allGraphQlResponse, max) /\ hasNextPage
              batch == IF EnoughEntries(allGraphQlResponse, max)
                       THEN TruncateBatch(allGraphQlResponse, max)
                       ELSE allGraphQlResponse
          IN IF more
             THEN /\ cursor' = cursor + n
                  /\ previousIssues' = allGraphQlResponse
                  /\ UNCHANGED <<step, issues, afterDate, fetched, fetchedEver>>
             ELSE /\ issues' = [issues EXCEPT ![cur] = batch]
                  /\ afterDate' = [afterDate EXCEPT
                                     ![cur] = NextStartDate(startDate[cur], batch)]
                  /\ fetched' = fetched \cup {cur}
                  /\ fetchedEver' = [fetchedEver EXCEPT ![cur] = @ \cup Numbers(batch)]
                  /\ step' = "releases"
                  /\ UNCHANGED <<cursor, previousIssues>>
    /\ UNCHANGED <<passRest, jiraSprints, pc, sprints, idx, attempt, issueKey,
                   failures, clean, processed, otherFailed>>
    /\ UNCHANGED <<runVars, syncStateYaml, auxVars>>

FetchPageFail ==
    /\ PassStepFail("fetch")
    /\ UNCHANGED <<passRest, jiraSprints, cursor, previousIssues, issues,
                   afterDate, sprints, idx, attempt, issueKey,
                   processed, otherFailed, fetched, fetchedEver>>
    /\ UNCHANGED <<runVars, syncStateYaml, auxVars>>

\* start lines 223-224: syncReleases resolves
SyncReleases ==
    /\ pc = "sync" /\ step = "releases"
    /\ step' = "sprints"
    /\ UNCHANGED <<passRest, jiraSprints, pc, cursor, previousIssues, issues,
                   afterDate, sprints, idx, attempt, issueKey, failures, clean,
                   processed, otherFailed, fetched, fetchedEver>>
    /\ JiraCall
    /\ UNCHANGED <<configError, syncStateYaml, output, written, auxVars>>

SyncReleasesFail ==
    /\ PassStepFail("releases")
    /\ UNCHANGED <<passRest, jiraSprints, cursor, previousIssues, issues,
                   afterDate, sprints, idx, attempt, issueKey,
                   processed, otherFailed, fetched, fetchedEver>>
    /\ JiraCall
    /\ UNCHANGED <<configError, syncStateYaml, output, written, auxVars>>

\* syncSprints: the sprints of the batch that Jira lacks are created, then
\* the name -> id table is filled from the sprints of the board
SyncSprints ==
    /\ pc = "sync" /\ step = "sprints"
    /\ jiraSprints' = [jiraSprints EXCEPT ![cur] = @ \cup SprintTitles(issues[cur])]
    /\ sprints' = jiraSprints'[cur]
    /\ Continue(1)
    /\ UNCHANGED <<passRest, cursor, previousIssues, issues, afterDate,
                   failures, clean, otherFailed, fetched, fetchedEver>>
    /\ JiraCall
    /\ written' = (written \/ jiraSprints' /= jiraSprints)
    /\ UNCHANGED <<configError, syncStateYaml, output, auxVars>>

\* syncSprints rejects (board not found, a call fails) after creating some
\* of the missing sprints
SyncSprintsFail ==
    /\ PassStepFail("sprints")
    /\ \E S \in SUBSET (SprintTitles(issues[cur]) \ jiraSprints[cur]) :
          jiraSprints' = [jiraSprints EXCEPT ![cur] = @ \cup S]
    /\ UNCHANGED <<passRest, cursor, previousIssues, issues,
                   afterDate, sprints, idx, attempt, issueKey,
                   processed, otherFailed, fetched, fetchedEver>>
    /\ JiraCall
    /\ written' = (written \/ jiraSprints' /= jiraSprints)
    /\ UNCHANGED <<configError, syncStateYaml, output, auxVars>>

\* ------------------------------------------------------------------------
\* SyncRepository.start: the loop over the issues, Jira.createOrUpdateIssue
\* ------------------------------------------------------------------------

upsertRest == <<cfgVars, ghIssues, jiraSprints, cur, results, startDate, cursor,
                previousIssues, issues, afterDate, sprints, run, attempted,
                prevIssues, fetched, fetchedEver>>

Issue == issues[cur][idx]

\* line 290: the search by globalId answers
FindExisting ==
    /\ pc = "sync" /\ step = "search"
    /\ LET existingKey == findExistingGithubIssueInJira(jiraIssues, GlobalId(cur, Issue))
       IN IF existingKey = 0
          THEN Goto("create", 0)
          ELSE Goto("link", existingKey)
    /\ UNCHANGED <<upsertRest, jiraIssues, failures, clean, created>>
    /\ JiraCall
    /\ UNCHANGED <<configError, syncStateYaml, output, written, auxVars>>

\* lines 294-296: createIssue answers with the key of the new issue
CreateIssue ==
    /\ pc = "sync" /\ step = "create"
    /\ jiraIssues' = Append(jiraIssues, NewIssue(GlobalId(cur, Issue)))
    /\ created' = [created EXCEPT ![cur] = @ \cup {Issue.number}]
    /\ Goto("link", Len(jiraIssues) + 1)
    /\ UNCHANGED <<upsertRest, failures, clean>>
    /\ JiraCall
    /\ written' = TRUE
    /\ UNCHANGED <<configError, syncStateYaml, output, auxVars>>

\* lines 302-313: createOrUpdateRemoteIssueLink with the globalId
RemoteLink ==
    /\ pc = "sync" /\ step = "link"
    /\ jiraIssues' = [jiraIssues EXCEPT
                        ![issueKey].links = @ \cup {GlobalId(cur, Issue)}]
    /\ Goto("edit", issueKey)
    /\ UNCHANGED <<upsertRest, failures, clean, created>>
    /\ JiraCall
    /\ written' = TRUE
    /\ UNCHANGED <<configError, syncStateYaml, output, auxVars>>

\* lines 346-349: editIssue
EditIssue ==
    /\ pc = "sync" /\ step = "edit"
    /\ jiraIssues' = [jiraIssues EXCEPT ![issueKey].edited = TRUE]
    /\ Goto("getIssue", issueKey)
    /\ UNCHANGED <<upsertRest, failures, clean, created>>
    /\ JiraCall
    /\ written' = TRUE
    /\ UNCHANGED <<configError, syncStateYaml, output, auxVars>>

\* lines 355-363: getIssue, then the comparison of the statuses
GetIssue ==
    /\ pc = "sync" /\ step = "getIssue"
    /\ LET toStatus == getJiraStatusFromGithubProject(Issue.status)
           currentStatus == jiraIssues[issueKey].status
       IN IF toLowerCase(currentStatus) /= toLowerCase(toStatus)
          THEN Goto("getTransitions", issueKey)
          ELSE AfterStatus
    /\ UNCHANGED <<upsertRest, jiraIssues, failures, clean, created>>
    /\ JiraCall
    /\ UNCHANGED <<configError, syncStateYaml, output, written, auxVars>>

\* getTransitionId answers; updateIssueStatusTo throws when no transition
\* leads to the wanted status
GetTransitions ==
    /\ pc = "sync" /\ step = "getTransitions"
    /\ IF HasTransition(getJiraStatusFromGithubProject(Issue.status))
       THEN Goto("doTransition", issueKey) /\ UNCHANGED clean
       ELSE OnUpsertError("other") /\ NotClean
    /\ UNCHANGED <<upsertRest, jiraIssues, failures, created>>
    /\ JiraCall
    /\ UNCHANGED <<configError, syncStateYaml, output, written, auxVars>>

\* lines 393-396: doTransition
DoTransition ==
    /\ pc = "sync" /\ step = "doTransition"
    /\ jiraIssues' = [jiraIssues EXCEPT ![issueKey].status =
                        TransitionTarget(getJiraStatusFromGithubProject(Issue.status))]
    /\ AfterStatus
    /\ UNCHANGED <<upsertRest, failures, clean, created>>
    /\ JiraCall
    /\ written' = TRUE
    /\ UNCHANGED <<configError, syncStateYaml, output, auxVars>>

\* lines 366-371: moveIssuesToSprintAndRank
MoveToSprint ==
    /\ pc = "sync" /\ step = "sprint"
    /\ jiraIssues' = [jiraIssues EXCEPT
                        ![issueKey].sprint = SprintBoardId(sprints, Issue)]
    /\ Continue(idx + 1)
    /\ UNCHANGED <<upsertRest, failures, clean, created, otherFailed>>
    /\ JiraCall
    /\ written' = TRUE
    /\ UNCHANGED <<configError, syncStateYaml, output, auxVars>>

\* a call of createOrUpdateIssue to Jira rejects
UpsertCallFail ==
    /\ pc = "sync" /\ step \in UpsertCalls
    /\ failures < MaxFailures
    /\ failures' = failures + 1
    /\ NotClean
    /\ \E shape \in Shapes : OnUpsertError(shape)
    /\ UNCHANGED <<upsertRest, jiraIssues, created>>
    /\ JiraCall
    /\ UNCHANGED <<configError, syncStateYaml, output, written, auxVars>>

\* lines 311-313: the 30 s pause is over, createOrUpdateIssue is called again
CoolDown ==
    /\ pc = "sync" /\ step = "cooldown"
    /\ step' = "search"
    /\ attempt' = 2
    /\ issueKey' = 0
    /\ UNCHANGED <<upsertRest, jiraIssues, pc, idx, failures, clean, created,
                   processed, otherFailed>>
    /\ UNCHANGED <<runVars, syncStateYaml, auxVars>>

\* ------------------------------------------------------------------------
\* ThrottleQueue
\*
\* Time is counted in ticks of Date.now().  The queue reads the clock only
\* in lastCallTime + intervalMs - now, so the model keeps the difference
\* now - lastCallTime (elapsed), capped at IntervalMs: lastCallTime starts
\* at 0 and the clock far beyond it.  A timer is the number of ticks left
\* before setTimeout may run its callback; the callback may run late.
\* ------------------------------------------------------------------------

Calls == 1..MaxCalls

Max(a, b) == IF a > b THEN a ELSE b

\* the wait is always zero
WaitNone(since) == 0

\* processQueue lines 36-37, with since = now - lastCallTime
Wait(since) == Max(0, IntervalMs - since)

\* Array.prototype.pop in the place of shift
Pop(q) == [next |-> q[Len(q)], rest |-> SubSeq(q, 1, Len(q) - 1)]

\* processQueue line 41: queue.shift()
Shift(q) == [next |-> Head(q), rest |-> Tail(q)]

\* every settled call resolves
SettleResolved(outcome) == "resolved"

\* throttle lines 14-19: resolve(result) after await fn(), reject(err) in
\* the catch block
Settle(outcome) == IF outcome = "resolve" THEN "resolved" ELSE "rejected"

Remove(ts, i) == SubSeq(ts, 1, i - 1) \o SubSeq(ts, i + 1, Len(ts))

\* no timer is ever set
ProcessQueueNoTimer(q, ts, since) ==
    /\ isProcessing' = (Len(q) > 0)
    /\ timers' = ts

\* isProcessing is not set when the timer is set
ProcessQueueFlagNotSet(q, ts, since) ==
    IF Len(q) = 0
    THEN /\ isProcessing' = FALSE
         /\ timers' = ts
    ELSE /\ isProcessing' = FALSE
         /\ timers' = Append(ts, Wait(since))

\* processQueue on the queue q, with the timers ts pending
ProcessQueue(q, ts, since) ==
    IF Len(q) = 0
    THEN /\ isProcessing' = FALSE
         /\ timers' = ts
    ELSE /\ isProcessing' = TRUE
         /\ timers' = Append(ts, Wait(since))

\* throttle(fn) is called while no wrapped function is on the stack
Throttle ==
    /\ enqueued < MaxCalls
    /\ enqueued' = enqueued + 1
    /\ queue' = Append(queue, enqueued + 1)
    /\ promise' = [promise EXCEPT ![enqueued + 1] = "pending"]
    /\ enqueuedWhen' = [enqueuedWhen EXCEPT
                          ![enqueued + 1] = IF isProcessing THEN "pending" ELSE "idle"]
    /\ IF ~isProcessing
       THEN ProcessQueue(queue', timers, elapsed)
       ELSE UNCHANGED <<isProcessing, timers>>
    /\ UNCHANGED <<elapsed, fnOutcome, settles, inFlight, order, gaps,
                   sinceDispatch, completed>>
    /\ UNCHANGED <<syncVars, resolverVars, reconcileVars, upsertVars>>

\* the callback of setTimeout (lines 39-46) runs: the head of the queue is
\* started and not awaited, then processQueue runs again.  The started
\* function may call throttle itself (nested) and may throw before it
\* returns a promise (throws)
TimerFire ==
    \E i \in 1..Len(timers), nested \in BOOLEAN, throws \in BOOLEAN :
       /\ timers[i] = 0
       /\ nested => enqueued < MaxCalls /\ Len(queue) > 0
       /\ throws => Len(queue) > 0
       /\ elapsed' = 0
       /\ IF Len(queue) = 0
          THEN /\ ProcessQueue(queue, Remove(timers, i), 0)
               /\ UNCHANGED <<queue, enqueued, enqueuedWhen, promise, fnOutcome,
                              settles, inFlight, order, gaps, sinceDispatch,
                              completed>>
          ELSE LET c == Shift(queue).next
                   n == enqueued + 1
                   pushed == IF nested THEN Append(Shift(queue).rest, n)
                             ELSE Shift(queue).rest
                   \* throttle inside the started function: processQueue is
                   \* called when isProcessing is false
                   inner == IF nested /\ ~isProcessing
                            THEN Append(Remove(timers, i), Wait(0))
                            ELSE Remove(timers, i)
                   pending == IF nested THEN [promise EXCEPT ![n] = "pending"]
                              ELSE promise
               IN /\ queue' = pushed
                  /\ enqueued' = IF nested THEN n ELSE enqueued
                  /\ enqueuedWhen' = IF nested
                                     THEN [enqueuedWhen EXCEPT ![n] = "nested"]
                                     ELSE enqueuedWhen
                  /\ order' = Append(order, c)
                  /\ gaps' = Append(gaps, sinceDispatch)
                  /\ sinceDispatch' = 0
                  /\ IF throws
                     THEN /\ fnOutcome' = [fnOutcome EXCEPT ![c] = "throw"]
                          /\ promise' = [pending EXCEPT ![c] = Settle("throw")]
                          /\ settles' = [settles EXCEPT ![c] = @ + 1]
                          /\ completed' = Append(completed, c)
                          /\ UNCHANGED inFlight
                     ELSE /\ inFlight' = inFlight \cup {c}
                          /\ promise' = pending
                          /\ UNCHANGED <<fnOutcome, settles, completed>>
                  /\ ProcessQueue(pushed, inner, 0)
       /\ UNCHANGED <<syncVars, resolverVars, reconcileVars, upsertVars>>

\* the promise of a started function settles: the wrapper of throttle
\* resolves or rejects the promise throttle returned
FnSettles ==
    \E c \in inFlight, outcome \in {"resolve", "reject"} :
       /\ fnOutcome' = [fnOutcome EXCEPT ![c] = outcome]
       /\ promise' = [promise EXCEPT ![c] = Settle(outcome)]
       /\ settles' = [settles EXCEPT ![c] = @ + 1]
       /\ inFlight' = inFlight \ {c}
       /\ completed' = Append(completed, c)
       /\ UNCHANGED <<queue, isProcessing, elapsed, timers, enqueued,
                      enqueuedWhen, order, gaps, sinceDispatch>>
       /\ UNCHANGED <<syncVars, resolverVars, reconcileVars, upsertVars>>

\* one tick of the clock
Tick ==
    /\ elapsed' = Min(elapsed + 1, IntervalMs)
    /\ sinceDispatch' = Min(sinceDispatch + 1, IntervalMs)
    /\ timers' = [i \in 1..Len(timers) |-> Max(timers[i] - 1, 0)]
    /\ UNCHANGED <<queue, isProcessing, enqueued, enqueuedWhen, promise,
                   fnOutcome, settles, inFlight, order, gaps, completed>>
    /\ UNCHANGED <<syncVars, resolverVars, reconcileVars, upsertVars>>

\* new ThrottleQueue(intervalMs)
InitThrottle ==
    /\ queue = <<>>
    /\ isProcessing = FALSE
    /\ elapsed = IntervalMs
    /\ timers = <<>>
    /\ enqueued = 0
    /\ enqueuedWhen = [c \in Calls |-> "none"]
    /\ promise = [c \in Calls |-> "none"]
    /\ fnOutcome = [c \in Calls |-> "none"]
    /\ settles = [c \in Calls |-> 0]
    /\ inFlight = {}
    /\ order = <<>>
    /\ gaps = <<>>
    /\ sinceDispatch = IntervalMs
    /\ completed = <<>>

\* ------------------------------------------------------------------------
\* SyncRepository.getJiraIssueTypeFromGitHubLabels
\* ------------------------------------------------------------------------

Labels == {"kind/bug", "kind/epic", "area/ui"}
IssueTypes == {"Bug", "Epic", "Task"}

\* the last matching rule wins
RECURSIVE LastRuleIssueType(_, _, _)
LastRuleIssueType(githubLabels, mapping, default) ==
    IF Len(mapping) = 0 THEN default
    ELSE IF mapping[Len(mapping)].fromGithubLabel \in githubLabels
         THEN mapping[Len(mapping)].toJira
         ELSE LastRuleIssueType(githubLabels, SubSeq(mapping, 1, Len(mapping) - 1), default)

\* lines 329-342: the loop over the rules returns at the first rule whose
\* label the issue carries
RECURSIVE getJiraIssueTypeFromGitHubLabels(_, _, _)
getJiraIssueTypeFromGitHubLabels(githubLabels, mapping, default) ==
    IF Len(mapping) = 0 THEN default
    ELSE IF mapping[1].fromGithubLabel \in githubLabels THEN mapping[1].toJira
    ELSE getJiraIssueTypeFromGitHubLabels(githubLabels, Tail(mapping), default)

\* getJiraIssueTypeFromGitHubLabels is called for an issue
ResolveIssueType ==
    /\ issueType = "unresolved"
    /\ issueType' = getJiraIssueTypeFromGitHubLabels(labels, issueTypeMapping,
                                                      issueTypeDefault)
    /\ UNCHANGED <<labels, issueTypeMapping, issueTypeDefault,
                   projectItems, statusMapping, statusDefault, jiraStatus>>
    /\ UNCHANGED <<syncVars, throttleVars, reconcileVars, upsertVars>>

\* start lines 262-267: getJiraStatusFromGithubProject is called with the
\* status of the issue on the configured board
ResolveStatus ==
    /\ jiraStatus = "unresolved"
    /\ jiraStatus' = FirstMatch(statusMapping, ProjectStatus(projectItems),
                                statusDefault)
    /\ UNCHANGED <<labels, issueTypeMapping, issueTypeDefault, issueType,
                   projectItems, statusMapping, statusDefault>>
    /\ UNCHANGED <<syncVars, throttleVars, reconcileVars, upsertVars>>

\* no issue type is being resolved
InitIssueTypeIdle ==
    /\ labels = {}
    /\ issueTypeMapping = <<>>
    /\ issueTypeDefault = "Task"
    /\ issueType = "unresolved"

\* no status is being resolved
InitStatusIdle ==
    /\ projectItems = <<>>
    /\ statusMapping = <<>>
    /\ statusDefault = "To Do"
    /\ jiraStatus = "unresolved"

\* no issue is being resolved
InitResolver == InitIssueTypeIdle /\ InitStatusIdle

\* ------------------------------------------------------------------------
\* SyncRepository.syncReleases, syncSprints and the fixVersionId of start
\*
\* An instant is a number of ticks since the epoch, TicksPerDay ticks a
\* day.  A date-time string is the record [day, tod, offset]: the day and
\* the tick of the day it shows and the offset to UTC it carries.  GitHub
\* and toISOString write UTC; Jira writes its own offset.
\* ------------------------------------------------------------------------

\* the text of an instant at the given offset
Render(instant, offset) ==
    [day |-> (instant + offset) \div TicksPerDay,
     tod |-> (instant + offset) % TicksPerDay,
     offset |-> offset]

\* the instant a text denotes
Parse(text) == text.day * TicksPerDay + text.tod - text.offset

\* Date.prototype.toISOString
toISOString(instant) == Render(instant, 0)

\* split('T')[0]
DatePart(text) == text.day

\* line 68: `${this.#projectConfiguration.name} ${release.title}`
Prefixed(title) ==
    CASE title = "v1" -> "p v1"
      [] title = "v2" -> "p v2"
      [] OTHER -> title

\* an issue without milestone, an issue without sprint; a date that may be
\* undefined is the empty sequence or the sequence of its value
NoMilestone == [id |-> 0, title |-> "", closed |-> FALSE, dueOn |-> <<>>]
NoSprint == [title |-> "", startDate |-> 0, duration |-> 0, board |-> "none"]

SeqToSet(q) == {q[i] : i \in 1..Len(q)}

\* lines 54-57: the milestones of the issues
Milestones(batch) ==
    SelectSeq([i \in 1..Len(batch) |-> batch[i].milestone], LAMBDA m : m.id /= 0)

\* lines 141-153: the sprints of the issues on the configured board
BoardSprints(batch) ==
    SelectSeq([i \in 1..Len(batch) |-> batch[i].sprint],
              LAMBDA x : x.board = "configured" /\ x.title /= "")

\* nothing is removed
KeepDuplicates(q) == q

\* lines 60-62 and 156-158: an entry is kept when it is the first of its title
RECURSIVE WithoutDuplicates(_)
WithoutDuplicates(q) ==
    IF Len(q) = 0 THEN <<>>
    ELSE LET front == SubSeq(q, 1, Len(q) - 1)
             last == q[Len(q)]
         IN IF \E i \in 1..Len(front) : front[i].title = last.title
            THEN WithoutDuplicates(front)
            ELSE Append(WithoutDuplicates(front), last)

\* lines 37-47
fromGithubMilestoneToJiraRelease(githubMilestone) ==
    [name |-> githubMilestone.title,
     released |-> githubMilestone.closed,
     releaseDate |-> IF githubMilestone.dueOn = <<>> THEN <<>>
                     ELSE <<DatePart(toISOString(githubMilestone.dueOn[1]))>>]

\* lines 119-130
fromGithubSprintToJiraSprint(githubSprint) ==
    [name |-> githubSprint.title,
     startDate |-> toISOString(githubSprint.startDate),
     endDate |-> toISOString(githubSprint.startDate
                             + githubSprint.duration * TicksPerDay)]

\* Array.prototype.find on a list of Jira entities, by name; id 0: not found
FindByName(list, name) ==
    IF \E i \in 1..Len(list) : list[i].name = name
    THEN list[SmallestOf({i \in 1..Len(list) : list[i].name = name})]
    ELSE [id |-> 0]

\* lines 64-75: the prefixed milestones that are not in Jira
ReleasesToCreate(batch, read) ==
    SelectSeq([i \in 1..Len(WithoutDuplicates(Milestones(batch))) |->
                  [WithoutDuplicates(Milestones(batch))[i] EXCEPT
                      !.title = Prefixed(@)]],
              LAMBDA release : FindByName(read, release.title).id = 0)

\* lines 83-95: the release found by the title of the milestone differs
ReleaseDiffers(release, read) ==
    LET jiraRelease == FindByName(read, release.title)
        fromGithub == fromGithubMilestoneToJiraRelease(release)
    IN /\ jiraRelease.id /= 0
       /\ \/ jiraRelease.name /= fromGithub.name
          \/ jiraRelease.released /= fromGithub.released
          \/ jiraRelease.releaseDate /= fromGithub.releaseDate

\* the update loop of syncReleases goes on at position i: it is suspended
\* at the next updateRelease, or is over and getReleases is called again
ReleaseLoop(i, read) ==
    LET todo == {j \in i..Len(WithoutDuplicates(Milestones(ghBatch))) :
                    ReleaseDiffers(WithoutDuplicates(Milestones(ghBatch))[j], read)}
    IN IF todo = {}
       THEN rstep' = "refreshReleases" /\ loopAt' = 0
       ELSE rstep' = "updateRelease" /\ loopAt' = SmallestOf(todo)

\* every sprint of the board is created again
SprintsToCreateAll(batch, read) == WithoutDuplicates(BoardSprints(batch))

\* lines 160-165: the sprints that are not in Jira
SprintsToCreate(batch, read) ==
    SelectSeq(WithoutDuplicates(BoardSprints(batch)),
              LAMBDA x : FindByName(read, x.title).id = 0
                         /\ x.startDate /= 0 /\ x.duration /= 0)

\* lines 175-194: the sprint found by its title differs
SprintDiffers(githubSprint, read) ==
    LET jiraSprint == FindByName(read, githubSprint.title)
        fromGithub == fromGithubSprintToJiraSprint(githubSprint)
    IN /\ jiraSprint.id /= 0
       /\ \/ jiraSprint.name /= fromGithub.name
          \/ DatePart(jiraSprint.startDate) /= DatePart(fromGithub.startDate)
          \/ DatePart(fromGithub.endDate) /= DatePart(jiraSprint.endDate)

\* the update loop of syncSprints goes on at position i
SprintLoop(i, read) ==
    LET todo == {j \in i..Len(WithoutDuplicates(BoardSprints(ghBatch))) :
                    SprintDiffers(WithoutDuplicates(BoardSprints(ghBatch))[j], read)}
    IN IF todo = {}
       THEN rstep' = "refreshSprints" /\ loopAt' = 0
       ELSE rstep' = "updateSprint" /\ loopAt' = SmallestOf(todo)

\* lines 109-111 and 208-210: the Map filled in the order of the list, a
\* later entry of the same name replacing the earlier one
NameToId(list) ==
    {[name |-> list[i].name, id |-> list[i].id] :
        i \in {j \in 1..Len(list) :
                 \A k \in (j + 1)..Len(list) : list[k].name /= list[j].name}}

\* Map.prototype.get; 0 stands for undefined
MapGet(map, name) ==
    IF \E e \in map : e.name = name
    THEN (CHOOSE e \in map : e.name = name).id
    ELSE 0

\* what Jira answers to getAllSprints: the dates in the offset of Jira
SprintsOfBoard ==
    [i \in 1..Len(jiraBoard) |->
        [id |-> jiraBoard[i].id, name |-> jiraBoard[i].name,
         startDate |-> Render(jiraBoard[i].startDate, jiraOffset),
         endDate |-> Render(jiraBoard[i].endDate, jiraOffset)]]

\* line 51 answers; lines 54-80 run without an await: createRelease is
\* called for every release to create and its promise is dropped
GetReleases ==
    /\ rstep = "getReleases"
    /\ releasesRead' = jiraReleases
    /\ LET toCreate == ReleasesToCreate(ghBatch, jiraReleases)
       IN /\ pendingCreates' = pendingCreates \cup
                {fromGithubMilestoneToJiraRelease(toCreate[i]) : i \in 1..Len(toCreate)}
          /\ releaseCreates' = releaseCreates \o
                [i \in 1..Len(toCreate) |-> toCreate[i].title]
    /\ ReleaseLoop(1, jiraReleases)
    /\ UNCHANGED <<ghBatch, jiraOffset, jiraReleases, jiraBoard, round,
                   sprintsRead, fixVersions, sprintMap, releaseUpdates,
                   sprintCreates, sprintUpdates, fixVersionId>>
    /\ UNCHANGED <<syncVars, throttleVars, resolverVars, upsertVars>>

\* Jira.createRelease lines 227-241: createVersion answers
CreateReleaseSettles ==
    \E release \in pendingCreates :
       /\ jiraReleases' = Append(jiraReleases,
                                 [id |-> Len(jiraReleases) + 1,
                                  name |-> release.name,
                                  released |-> release.released,
                                  releaseDate |-> release.releaseDate])
       /\ pendingCreates' = pendingCreates \ {release}
       /\ UNCHANGED <<ghBatch, jiraOffset, jiraBoard, rstep, round, releasesRead,
                      sprintsRead, loopAt, fixVersions, sprintMap, releaseCreates,
                      releaseUpdates, sprintCreates, sprintUpdates, fixVersionId>>
       /\ UNCHANGED <<syncVars, throttleVars, resolverVars, upsertVars>>

\* lines 96-103: updateRelease answers; a field that is undefined is not
\* sent and keeps its value
UpdateRelease ==
    /\ rstep = "updateRelease"
    /\ LET release == WithoutDuplicates(Milestones(ghBatch))[loopAt]
           jiraRelease == FindByName(releasesRead, release.title)
           fromGithub == fromGithubMilestoneToJiraRelease(release)
       IN /\ jiraReleases' = [jiraReleases EXCEPT
                ![jiraRelease.id] =
                    [id |-> jiraRelease.id,
                     name |-> fromGithub.name,
                     released |-> fromGithub.released,
                     releaseDate |-> IF fromGithub.releaseDate = <<>>
                                     THEN @.releaseDate
                                     ELSE fromGithub.releaseDate]]
          /\ releaseUpdates' = Append(releaseUpdates, jiraRelease.id)
    /\ ReleaseLoop(loopAt + 1, releasesRead)
    /\ UNCHANGED <<ghBatch, jiraOffset, jiraBoard, round, releasesRead,
                   sprintsRead, fixVersions, sprintMap, pendingCreates,
                   releaseCreates, sprintCreates, sprintUpdates, fixVersionId>>
    /\ UNCHANGED <<syncVars, throttleVars, resolverVars, upsertVars>>

\* lines 107-111: getReleases answers and #fixVersions is filled
RefreshReleases ==
    /\ rstep = "refreshReleases"
    /\ fixVersions' = NameToId(jiraReleases)
    /\ rstep' = "getSprints"
    /\ UNCHANGED <<ghBatch, jiraOffset, jiraReleases, jiraBoard, round,
                   releasesRead, sprintsRead, loopAt, sprintMap, pendingCreates,
                   releaseCreates, releaseUpdates, sprintCreates, sprintUpdates,
                   fixVersionId>>
    /\ UNCHANGED <<syncVars, throttleVars, resolverVars, upsertVars>>

\* line 138 answers; the first createSprint or updateSprint is called
GetSprints ==
    /\ rstep = "getSprints"
    /\ sprintsRead' = SprintsOfBoard
    /\ IF Len(SprintsToCreate(ghBatch, SprintsOfBoard)) > 0
       THEN rstep' = "createSprint" /\ loopAt' = 1
       ELSE SprintLoop(1, SprintsOfBoard)
    /\ UNCHANGED <<ghBatch, jiraOffset, jiraReleases, jiraBoard, round,
                   releasesRead, fixVersions, sprintMap, pendingCreates,
                   releaseCreates, releaseUpdates, sprintCreates, sprintUpdates,
                   fixVersionId>>
    /\ UNCHANGED <<syncVars, throttleVars, resolverVars, upsertVars>>

\* lines 167-170: createSprint answers
CreateSprint ==
    /\ rstep = "createSprint"
    /\ LET toCreate == SprintsToCreate(ghBatch, sprintsRead)
           jiraSprint == fromGithubSprintToJiraSprint(toCreate[loopAt])
       IN /\ jiraBoard' = Append(jiraBoard,
                                 [id |-> Len(jiraBoard) + 1,
                                  name |-> jiraSprint.name,
                                  startDate |-> Parse(jiraSprint.startDate),
                                  endDate |-> Parse(jiraSprint.endDate)])
          /\ sprintCreates' = Append(sprintCreates, jiraSprint.name)
          /\ IF loopAt < Len(toCreate)
             THEN loopAt' = loopAt + 1 /\ UNCHANGED rstep
             ELSE SprintLoop(1, sprintsRead)
    /\ UNCHANGED <<ghBatch, jiraOffset, jiraReleases, round, releasesRead,
                   sprintsRead, fixVersions, sprintMap, pendingCreates,
                   releaseCreates, releaseUpdates, sprintUpdates, fixVersionId>>
    /\ UNCHANGED <<syncVars, throttleVars, resolverVars, upsertVars>>

\* lines 195-202: updateSprint answers
UpdateSprint ==
    /\ rstep = "updateSprint"
    /\ LET githubSprint == WithoutDuplicates(BoardSprints(ghBatch))[loopAt]
           jiraSprint == FindByName(sprintsRead, githubSprint.title)
           fromGithub == fromGithubSprintToJiraSprint(githubSprint)
       IN /\ jiraBoard' = [jiraBoard EXCEPT
                ![jiraSprint.id] =
                    [id |-> jiraSprint.id,
                     name |-> fromGithub.name,
                     startDate |-> Parse(fromGithub.startDate),
                     endDate |-> Parse(fromGithub.endDate)]]
          /\ sprintUpdates' = Append(sprintUpdates, jiraSprint.id)
    /\ SprintLoop(loopAt + 1, sprintsRead)
    /\ UNCHANGED <<ghBatch, jiraOffset, jiraReleases, round, releasesRead,
                   sprintsRead, fixVersions, sprintMap, pendingCreates,
                   releaseCreates, releaseUpdates, sprintCreates, fixVersionId>>
    /\ UNCHANGED <<syncVars, throttleVars, resolverVars, upsertVars>>

\* lines 206-210: getSprints answers and #sprints is filled; start goes on
\* to the loop over the issues
RefreshSprints ==
    /\ rstep = "refreshSprints"
    /\ sprintMap' = NameToId(SprintsOfBoard)
    /\ rstep' = "upsert"
    /\ UNCHANGED <<ghBatch, jiraOffset, jiraReleases, jiraBoard, round,
                   releasesRead, sprintsRead, loopAt, fixVersions, pendingCreates,
                   releaseCreates, releaseUpdates, sprintCreates, sprintUpdates,
                   fixVersionId>>
    /\ UNCHANGED <<syncVars, throttleVars, resolverVars, upsertVars>>

\* start lines 234-318: the loop over the issues; lines 255-260 look the
\* fixVersionId of every issue up
UpsertIssues ==
    /\ rstep = "upsert"
    /\ fixVersionId' = [i \in 1..Len(ghBatch) |->
                          IF ghBatch[i].milestone.id /= 0
                          THEN MapGet(fixVersions, Prefixed(ghBatch[i].milestone.title))
                          ELSE 0]
    /\ rstep' = "returned"
    /\ UNCHANGED <<ghBatch, jiraOffset, jiraReleases, jiraBoard, round,
                   releasesRead, sprintsRead, loopAt, fixVersions, sprintMap,
                   pendingCreates, releaseCreates, releaseUpdates, sprintCreates,
                   sprintUpdates>>
    /\ UNCHANGED <<syncVars, throttleVars, resolverVars, upsertVars>>

\* Sync.start lines 26-33: start returned, the pass of the next project
\* configuration is started
NextProjectStarts ==
    /\ rstep = "returned"
    /\ rstep' = "nextProject"
    /\ UNCHANGED <<ghBatch, jiraOffset, jiraReleases, jiraBoard, round,
                   releasesRead, sprintsRead, loopAt, fixVersions, sprintMap,
                   pendingCreates, releaseCreates, releaseUpdates, sprintCreates,
                   sprintUpdates, fixVersionId>>
    /\ UNCHANGED <<syncVars, throttleVars, resolverVars, upsertVars>>

\* a later run fetches the same issues again, with Jira as the run before
\* left it
NextRound ==
    /\ rstep = "nextProject"
    /\ pendingCreates = {}
    /\ round < MaxRounds
    /\ round' = round + 1
    /\ rstep' = "getReleases"
    /\ releasesRead' = <<>>
    /\ sprintsRead' = <<>>
    /\ loopAt' = 0
    /\ fixVersions' = {}
    /\ sprintMap' = {}
    /\ releaseCreates' = <<>>
    /\ releaseUpdates' = <<>>
    /\ sprintCreates' = <<>>
    /\ sprintUpdates' = <<>>
    /\ fixVersionId' = <<>>
    /\ UNCHANGED <<ghBatch, jiraOffset, jiraReleases, jiraBoard, pendingCreates>>
    /\ UNCHANGED <<syncVars, throttleVars, resolverVars, upsertVars>>

\* the local state of a reconciliation that has not called Jira yet
InitReconcileLocals ==
    /\ round = 1
    /\ releasesRead = <<>>
    /\ sprintsRead = <<>>
    /\ loopAt = 0
    /\ fixVersions = {}
    /\ sprintMap = {}
    /\ pendingCreates = {}
    /\ releaseCreates = <<>>
    /\ releaseUpdates = <<>>
    /\ sprintCreates = <<>>
    /\ sprintUpdates = <<>>
    /\ fixVersionId = <<>>

\* no reconciliation is running
InitReconcileIdle ==
    /\ ghBatch = <<>>
    /\ jiraOffset = 0
    /\ jiraReleases = <<>>
    /\ jiraBoard = <<>>
    /\ rstep = "idle"
    /\ InitReconcileLocals

\* ------------------------------------------------------------------------
\* The loop body of SyncRepository.start (lines 236-294) and
\* Jira.createOrUpdateIssue: the values that reach Jira for one issue.
\*
\* A project item of the issue is [board, status, storyPoints, sprint]:
\* the title of its project, the name of its status ("undefined" when it
\* has none), its story points (the empty sequence when it has none) and
\* the title of its sprint ("" when it has none).
\* ------------------------------------------------------------------------

\* sync.yaml of the project: jira.projectKey and the issue type mapping
JiraProjectKey == "PRJ"
UpsertIssueTypeMapping == << [fromGithubLabel |-> "kind/bug", toJira |-> "Bug"] >>
UpsertIssueTypeDefault == "Task"

\* the sprints the board of Jira holds before the pass
BoardBefore == {[name |-> "S2", id |-> 2]}

\* the id Jira gives to a sprint it creates
NewSprintId(name) == IF name = "S1" THEN 1 ELSE IF name = "S2" THEN 2 ELSE 3

NoProjectData ==
    [board |-> "none", status |-> "undefined", storyPoints |-> <<>>, sprint |-> ""]

\* the first project item of the issue, whatever its board
FirstProjectItem(projects) ==
    IF Len(projects) = 0 THEN NoProjectData ELSE projects[1]

\* start lines 262-264: projects.find by the title of the configured project
RECURSIVE ProjectData(_)
ProjectData(projects) ==
    IF Len(projects) = 0 THEN NoProjectData
    ELSE IF projects[1].board = "configured" THEN projects[1]
    ELSE ProjectData(Tail(projects))

\* syncSprints lines 141-158 for the project items of the issue
GithubSprintsOf(projects) ==
    LET kept == SelectSeq(projects,
                          LAMBDA p : p.sprint /= "" /\ p.board = "configured")
    IN WithoutDuplicates([i \in 1..Len(kept) |-> [title |-> kept[i].sprint]])

\* syncSprints lines 160-165: the sprints the board lacks
MissingSprints(projects, board) ==
    SelectSeq(GithubSprintsOf(projects),
              LAMBDA x : \A b \in board : b.name /= x.title)

\* `if (storyPoints)': undefined and 0 are falsy
Truthy(storyPoints) == storyPoints /= <<>> /\ storyPoints[1] /= 0

\* the story points are set whenever the item has some, 0 included
StoryPointsDefined(storyPoints) == storyPoints /= <<>>

\* start lines 236-294: issueToCreate.  The object literal of lines 279-290
\* has no property jiraProjectKey; storyPoints is added at lines 292-294
IssueToCreate(issue, known) ==
    LET projectData == ProjectData(issue.projectItems)
        base == [title |-> issue.title,
                 issuetype |-> getJiraIssueTypeFromGitHubLabels(
                                  issue.labels, UpsertIssueTypeMapping,
                                  UpsertIssueTypeDefault),
                 status |-> getJiraStatusFromGithubProject(projectData.status),
                 sprintBoardId |-> IF projectData.sprint /= ""
                                   THEN MapGet(known, projectData.sprint) ELSE 0,
                 globalId |-> issue.globalId,
                 remoteLinkUrl |-> issue.url]
    IN IF Truthy(projectData.storyPoints)
       THEN [title |-> base.title, issuetype |-> base.issuetype,
             status |-> base.status, sprintBoardId |-> base.sprintBoardId,
             globalId |-> base.globalId, remoteLinkUrl |-> base.remoteLinkUrl,
             storyPoints |-> projectData.storyPoints[1]]
       ELSE base

\* the value of a property of an object: undefined when it has none
Property(object, name) ==
    IF name \in DOMAIN object THEN object[name] ELSE "undefined"

\* createOrUpdateIssue lines 276-288: createParams.fields
createParams(params) ==
    [summary |-> params.title,
     project |-> Property(params, "jiraProjectKey"),
     issuetype |-> params.issuetype]

\* lines 315-321: `createOrUpdateIssueParams.storyPoints ?? 1'
StoryPointsOrOne(params) ==
    IF "storyPoints" \in DOMAIN params THEN params.storyPoints ELSE 1

\* getTransitionId lines 376-382 on the transitions Jira offers
getTransitionId(targets, targetStatus) ==
    IF \E t \in targets : toLowerCase(t) = toLowerCase(targetStatus)
    THEN <<CHOOSE t \in targets : toLowerCase(t) = toLowerCase(targetStatus)>>
    ELSE <<>>

\* the statuses are compared as they are written
SameStatusExact(currentStatus, toStatus) == currentStatus = toStatus

\* lines 359: currentStatus?.toLowerCase() !== toStatus.toLowerCase()
SameStatus(currentStatus, toStatus) ==
    toLowerCase(currentStatus) = toLowerCase(toStatus)

Called(call, arg) == jiraCalls' = Append(jiraCalls, [call |-> call, arg |-> arg])

\* syncSprints for the issue: the missing sprints of the configured board
\* are created and #sprints is filled from the sprints of the board
UpsertSyncSprints ==
    /\ ustep = "syncSprints"
    /\ LET missing == MissingSprints(ghIssue.projectItems, BoardBefore)
       IN /\ jiraCalls' = jiraCalls \o [i \in 1..Len(missing) |->
                                          [call |-> "createSprint",
                                           arg |-> missing[i].title]]
          /\ sprintIds' = BoardBefore \cup
                          {[name |-> missing[i].title,
                            id |-> NewSprintId(missing[i].title)] :
                              i \in 1..Len(missing)}
    /\ ustep' = "issueToCreate"
    /\ UNCHANGED <<ghIssue, jiraIssue, issueToCreate>>
    /\ UNCHANGED <<syncVars, throttleVars, resolverVars, reconcileVars>>

\* start lines 236-298: issueToCreate is built and createOrUpdateIssue is
\* called; it runs up to the search (line 290)
UpsertBuildParams ==
    /\ ustep = "issueToCreate"
    /\ issueToCreate' = IssueToCreate(ghIssue, sprintIds)
    /\ ustep' = "search"
    /\ UNCHANGED <<ghIssue, jiraIssue, sprintIds, jiraCalls>>
    /\ UNCHANGED <<syncVars, throttleVars, resolverVars, reconcileVars>>

\* the remote link is written for a new issue only
AfterSearchLinkOnlyNew(found) == IF found THEN "edit" ELSE "create"

\* lines 292-313: a new issue is created, and the remote link is written
\* for the issue created or found
AfterSearch(found) == IF found THEN "link" ELSE "create"

\* line 290: the search by globalId answers
UpsertSearch ==
    /\ ustep = "search"
    /\ ustep' = AfterSearch(jiraIssue.exists)
    /\ UNCHANGED <<ghIssue, jiraIssue, sprintIds, issueToCreate, jiraCalls>>
    /\ UNCHANGED <<syncVars, throttleVars, resolverVars, reconcileVars>>

\* lines 294-296: createIssue(createParams)
UpsertCreate ==
    /\ ustep = "create"
    /\ jiraIssue' = [exists |-> TRUE,
                     project |-> createParams(issueToCreate).project,
                     summary |-> createParams(issueToCreate).summary,
                     issuetype |-> createParams(issueToCreate).issuetype,
                     storyPoints |-> 0,
                     status |-> JiraInitialStatus,
                     sprint |-> 0,
                     links |-> {}]
    /\ Called("createIssue", createParams(issueToCreate))
    /\ ustep' = "link"
    /\ UNCHANGED <<ghIssue, sprintIds, issueToCreate>>
    /\ UNCHANGED <<syncVars, throttleVars, resolverVars, reconcileVars>>

\* lines 302-313: createOrUpdateRemoteIssueLink
UpsertLink ==
    /\ ustep = "link"
    /\ jiraIssue' = [jiraIssue EXCEPT
                       !.links = @ \cup {[globalId |-> issueToCreate.globalId,
                                          url |-> issueToCreate.remoteLinkUrl]}]
    /\ Called("createOrUpdateRemoteIssueLink",
              [globalId |-> issueToCreate.globalId,
               url |-> issueToCreate.remoteLinkUrl])
    /\ ustep' = "edit"
    /\ UNCHANGED <<ghIssue, sprintIds, issueToCreate>>
    /\ UNCHANGED <<syncVars, throttleVars, resolverVars, reconcileVars>>

\* lines 315-349: editIssue with updateFields
UpsertEdit ==
    /\ ustep = "edit"
    /\ jiraIssue' = [jiraIssue EXCEPT
                       !.summary = createParams(issueToCreate).summary,
                       !.project = createParams(issueToCreate).project,
                       !.issuetype = createParams(issueToCreate).issuetype,
                       !.storyPoints = StoryPointsOrOne(issueToCreate)]
    /\ Called("editIssue", StoryPointsOrOne(issueToCreate))
    /\ ustep' = "getIssue"
    /\ UNCHANGED <<ghIssue, sprintIds, issueToCreate>>
    /\ UNCHANGED <<syncVars, throttleVars, resolverVars, reconcileVars>>

\* lines 365-373: the sprint of the issue, or the return
AfterStatusOf(params) ==
    IF params.sprintBoardId /= 0 THEN "sprint" ELSE "returned"

\* lines 351-363: getIssue answers and the statuses are compared
UpsertGetIssue ==
    /\ ustep = "getIssue"
    /\ ustep' = IF SameStatus(jiraIssue.status, issueToCreate.status)
                THEN AfterStatusOf(issueToCreate)
                ELSE "getTransitions"
    /\ Called("getIssue", jiraIssue.status)
    /\ UNCHANGED <<ghIssue, jiraIssue, sprintIds, issueToCreate>>
    /\ UNCHANGED <<syncVars, throttleVars, resolverVars, reconcileVars>>

\* updateIssueStatusTo lines 385-390: getTransitions answers; the error
\* `Transition to status ... not found' leaves createOrUpdateIssue
UpsertGetTransitionId ==
    /\ ustep = "getTransitions"
    /\ ustep' = IF getTransitionId(JiraTransitionTargets, issueToCreate.status) = <<>>
                THEN "threw"
                ELSE "doTransition"
    /\ UNCHANGED <<ghIssue, jiraIssue, sprintIds, issueToCreate, jiraCalls>>
    /\ UNCHANGED <<syncVars, throttleVars, resolverVars, reconcileVars>>

\* lines 392-396: doTransition
UpsertDoTransition ==
    /\ ustep = "doTransition"
    /\ LET to == getTransitionId(JiraTransitionTargets, issueToCreate.status)[1]
       IN /\ jiraIssue' = [jiraIssue EXCEPT !.status = to]
          /\ Called("doTransition", to)
    /\ ustep' = AfterStatusOf(issueToCreate)
    /\ UNCHANGED <<ghIssue, sprintIds, issueToCreate>>
    /\ UNCHANGED <<syncVars, throttleVars, resolverVars, reconcileVars>>

\* lines 366-371: moveIssuesToSprintAndRank
UpsertMoveToSprint ==
    /\ ustep = "sprint"
    /\ jiraIssue' = [jiraIssue EXCEPT !.sprint = issueToCreate.sprintBoardId]
    /\ Called("moveIssuesToSprintAndRank", issueToCreate.sprintBoardId)
    /\ ustep' = "returned"
    /\ UNCHANGED <<ghIssue, sprintIds, issueToCreate>>
    /\ UNCHANGED <<syncVars, throttleVars, resolverVars, reconcileVars>>

NoIssue ==
    [exists |-> FALSE, project |-> "", summary |-> "", issuetype |-> "",
     storyPoints |-> 0, status |-> "", sprint |-> 0, links |-> {}]

\* no issue is in the loop body
InitUpsertIdle ==
    /\ ghIssue = [title |-> "", labels |-> {}, projectItems |-> <<>>,
                  globalId |-> "", url |-> ""]
    /\ jiraIssue = NoIssue
    /\ sprintIds = {}
    /\ issueToCreate = [title |-> ""]
    /\ ustep = "idle"
    /\ jiraCalls = <<>>

\* ------------------------------------------------------------------------
\* Initial states and specifications
\* ------------------------------------------------------------------------

\* board data of the issues of the model, by issue number
StatusOf(n) == CASE n = 1 -> "wip" [] n = 3 -> "blocked" [] OTHER -> "none"
SprintOf(n) == IF n = 1 THEN "S1" ELSE "none"

Rec(n, t) == [number |-> n, updatedAt |-> t, status |-> StatusOf(n), sprint |-> SprintOf(n)]

\* the issue lists a search sorted by update time can answer with
SortedTimes(k) ==
    {f \in [1..k -> 1..MaxTime] : \A i \in 1..(k - 1) : f[i] <= f[i + 1]}

Repositories ==
    UNION {{[i \in 1..k |-> Rec(i, f[i])] : f \in SortedTimes(k)} : k \in 0..MaxIssues}

NoState == [exists |-> FALSE, syncProjects |-> <<>>]

InitCommon ==
    /\ syncStateYaml = NoState
    /\ jiraIssues = <<>>
    /\ jiraSprints = [p \in Projects |-> {}]
    /\ pc = "idle"
    /\ cur = 1
    /\ results = <<>>
    /\ startDate = syncYamlAfterDate
    /\ step = "none"
    /\ cursor = 0
    /\ previousIssues = <<>>
    /\ issues = [p \in Projects |-> <<>>]
    /\ afterDate = syncYamlAfterDate
    /\ sprints = {}
    /\ idx = 0
    /\ attempt = 1
    /\ issueKey = 0
    /\ run = 0
    /\ attempted = {}
    /\ clean = [p \in Projects |-> TRUE]
    /\ created = [p \in Projects |-> {}]
    /\ prevIssues = [p \in Projects |-> [done |-> FALSE, issues |-> <<>>]]
    /\ processed = [p \in Projects |-> {}]
    /\ otherFailed = [p \in Projects |-> {}]
    /\ fetched = {}
    /\ fetchedEver = [p \in Projects |-> {}]
    /\ output = NoOutput
    /\ written = FALSE
    /\ ungoverned = FALSE

\* at most one sync project has an error in its configuration
ConfigErrors ==
    {e \in [Projects -> ConfigErrorKinds] :
        \A p, q \in Projects : e[p] /= "none" /\ e[q] /= "none" => p = q}

\* two repositories with known issues; remote calls may reject
Init ==
    /\ configError \in ConfigErrors
    /\ syncYamlAfterDate = [p \in Projects |-> 0]
    /\ maxBatchSize = [p \in Projects |-> MaxBatchSize]
    /\ ghIssues = [p \in Projects |->
                     IF p = 1 THEN <<Rec(1, 1), Rec(2, 2)>> ELSE <<Rec(3, 1)>>]
    /\ failures = 0
    /\ syncState = NoState
    /\ InitCommon
    /\ InitThrottle
    /\ InitResolver
    /\ InitReconcileIdle
    /\ InitUpsertIdle

Next ==
    \/ MainStart
    \/ ProjectDone
    \/ WriteState
    \/ StateNotRestored
    \/ InitAndCheck
    \/ InitAndCheckFail
    \/ InitAndCheckNotFound
    \/ FetchPage
    \/ FetchPageFail
    \/ SyncReleases
    \/ SyncReleasesFail
    \/ SyncSprints
    \/ SyncSprintsFail
    \/ FindExisting
    \/ CreateIssue
    \/ RemoteLink
    \/ EditIssue
    \/ GetIssue
    \/ GetTransitions
    \/ DoTransition
    \/ MoveToSprint
    \/ UpsertCallFail
    \/ CoolDown

Spec == Init /\ [][Next]_vars

\* every repository, batch size and configured afterDate of the first
\* project; sync-state.yaml is restored faithfully between the runs
InitFetch ==
    /\ \E a \in 0..1 :
          syncYamlAfterDate = [p \in Projects |-> IF p = 1 THEN a ELSE 0]
    /\ \E b \in 0..MaxBatchSize :
          maxBatchSize = [p \in Projects |-> IF p = 1 THEN b ELSE 1]
    /\ \E r \in Repositories :
          ghIssues = [p \in Projects |-> IF p = 1 THEN r ELSE <<Rec(3, 1)>>]
    /\ failures = MaxFailures - 1
    /\ configError = [p \in Projects |-> "none"]
    /\ syncState = NoState
    /\ InitCommon
    /\ InitThrottle
    /\ InitResolver
    /\ InitReconcileIdle
    /\ InitUpsertIdle

NextFetch ==
    \/ MainStart
    \/ ProjectDone
    \/ WriteState
    \/ InitAndCheck
    \/ InitAndCheckFail
    \/ FetchPage
    \/ FetchPageFail
    \/ SyncReleases
    \/ SyncReleasesFail
    \/ SyncSprints
    \/ SyncSprintsFail
    \/ FindExisting
    \/ CreateIssue
    \/ RemoteLink
    \/ EditIssue
    \/ GetIssue
    \/ GetTransitions
    \/ DoTransition
    \/ MoveToSprint
    \/ UpsertCallFail
    \/ CoolDown

FetchSpec == InitFetch /\ [][NextFetch]_vars

\* the action is not running
SyncIdle ==
    /\ syncYamlAfterDate = [p \in Projects |-> 0]
    /\ maxBatchSize = [p \in Projects |-> MaxBatchSize]
    /\ ghIssues = [p \in Projects |-> <<>>]
    /\ failures = 0
    /\ configError = [p \in Projects |-> "none"]
    /\ syncState = NoState
    /\ InitCommon

\* a ThrottleQueue and its callers: any number of calls, at any time, of
\* any duration and outcome
NextThrottle ==
    \/ Throttle
    \/ TimerFire
    \/ FnSettles
    \/ Tick

InitThrottleSpec ==
    SyncIdle /\ InitThrottle /\ InitResolver /\ InitReconcileIdle /\ InitUpsertIdle

ThrottleSpec == InitThrottleSpec /\ [][NextThrottle]_vars

\* the clock advances and a due timer runs its callback
ThrottleFairSpec ==
    InitThrottleSpec /\ [][NextThrottle]_vars /\ WF_vars(Tick) /\ WF_vars(TimerFire)

\* the rule tables of at most MaxRules rules
Rules == [fromGithubLabel : Labels, toJira : IssueTypes]
Tables == UNION {[1..k -> Rules] : k \in 0..MaxRules}

\* every label set, rule table and default
InitResolve ==
    /\ SyncIdle
    /\ InitThrottle
    /\ InitReconcileIdle
    /\ InitUpsertIdle
    /\ labels \in SUBSET Labels
    /\ issueTypeMapping \in Tables
    /\ issueTypeDefault \in IssueTypes
    /\ issueType = "unresolved"
    /\ InitStatusIdle

NextResolve == ResolveIssueType

ResolveSpec == InitResolve /\ [][NextResolve]_vars

\* the statuses of a board, the names of Jira statuses
BoardStatuses == {"wip", "WIP", "done"}
JiraStatuses == {"In Progress", "To Do"}

\* the projectItems of an issue: at most two boards, with or without status
ProjectItems ==
    UNION {[1..k -> [board : {"configured", "other"},
                     status : BoardStatuses \cup {"undefined"}]] : k \in 0..2}

StatusRules == [fromGithub : BoardStatuses, toJira : JiraStatuses]
StatusTables == UNION {[1..k -> StatusRules] : k \in 0..MaxRules}

\* every issue, rule table and default
InitStatus ==
    /\ SyncIdle
    /\ InitThrottle
    /\ InitReconcileIdle
    /\ InitUpsertIdle
    /\ InitIssueTypeIdle
    /\ projectItems \in ProjectItems
    /\ statusMapping \in StatusTables
    /\ statusDefault \in JiraStatuses
    /\ jiraStatus = "unresolved"

NextStatus == ResolveStatus

StatusSpec == InitStatus /\ [][NextStatus]_vars

\* a sync-state.yaml of at most two entries; NumProjects + 1 is the name of
\* a project that sync.yaml does not configure
StateEntries == [syncProjectName : 1..(NumProjects + 1), afterDate : 1..2]
States ==
    {NoState} \cup
    {[exists |-> TRUE, syncProjects |-> e] :
        e \in UNION {[1..k -> StateEntries] : k \in 0..2}}

\* the runs of the action, whatever sync-state.yaml the first run finds
InitState ==
    /\ syncYamlAfterDate = [p \in Projects |-> 0]
    /\ maxBatchSize = [p \in Projects |-> MaxBatchSize]
    /\ ghIssues = [p \in Projects |->
                     IF p = 1 THEN <<Rec(1, 1), Rec(2, 2)>> ELSE <<Rec(3, 1)>>]
    /\ failures = MaxFailures - 1
    /\ configError = [p \in Projects |-> "none"]
    /\ syncState \in States
    /\ InitCommon
    /\ InitThrottle
    /\ InitResolver
    /\ InitReconcileIdle
    /\ InitUpsertIdle

StateSpec == InitState /\ [][NextFetch]_vars

\* the milestones and sprints of the repository
Milestone(title, closed) ==
    [id |-> IF title = "v1" THEN 1 ELSE 2, title |-> title, closed |-> closed,
     dueOn |-> IF title = "v1" THEN <<2 * TicksPerDay>> ELSE <<>>]
Sprint(title, board) ==
    [title |-> title, startDate |-> 2 * TicksPerDay, duration |-> 1, board |-> board]

\* the first issue has milestone v1 and sprint S1; the second issue is any
\* issue, Jira holds any of the releases "p v1" and "v1", the board holds
\* no sprint or the sprint S1 with the dates of GitHub or with other dates
InitReconcile ==
    /\ SyncIdle
    /\ InitThrottle
    /\ InitResolver
    /\ InitUpsertIdle
    /\ InitReconcileLocals
    /\ rstep = "getReleases"
    /\ jiraOffset \in {0 - 1, 0}
    /\ \E closed \in BOOLEAN :
          \E m \in {NoMilestone, Milestone("v1", closed), Milestone("v2", FALSE)} :
          \E x \in {NoSprint, Sprint("S1", "configured"), Sprint("S1", "other"),
                    Sprint("S2", "configured")} :
             ghBatch = << [milestone |-> Milestone("v1", closed),
                           sprint |-> Sprint("S1", "configured")],
                          [milestone |-> m, sprint |-> x] >>
    /\ \E names \in {<<>>, <<"p v1">>, <<"v1">>, <<"p v1", "v1">>} :
          jiraReleases = [i \in 1..Len(names) |->
                            [id |-> i, name |-> names[i], released |-> FALSE,
                             releaseDate |-> IF names[i] = "v1" THEN <<>> ELSE <<2>>]]
    /\ \E start \in {0, TicksPerDay, 2 * TicksPerDay} :
          jiraBoard = IF start = 0 THEN <<>>
                      ELSE << [id |-> 1, name |-> "S1", startDate |-> start,
                               endDate |-> start + TicksPerDay] >>

NextReconcile ==
    \/ GetReleases
    \/ CreateReleaseSettles
    \/ UpdateRelease
    \/ RefreshReleases
    \/ GetSprints
    \/ CreateSprint
    \/ UpdateSprint
    \/ RefreshSprints
    \/ UpsertIssues
    \/ NextProjectStarts
    \/ NextRound

ReconcileSpec == InitReconcile /\ [][NextReconcile]_vars

\* the project items an issue may have: items of the configured board and
\* an item of another board that has a status, story points and a sprint
ConfiguredItems ==
    [board : {"configured"}, status : {"undefined", "wip", "blocked"},
     storyPoints : {<<>>, <<0>>, <<3>>}, sprint : {"", "S1"}]
OtherItem ==
    [board |-> "other", status |-> "blocked", storyPoints |-> <<5>>, sprint |-> "S2"]
IssueItems ==
    UNION {[1..k -> ConfiguredItems \cup {OtherItem}] : k \in 0..2}

\* the issue Jira holds for the globalId before the pass, if any
ExistingIssues ==
    {[exists |-> TRUE, project |-> JiraProjectKey, summary |-> "old title",
      issuetype |-> "Task", storyPoints |-> 2, status |-> st, sprint |-> 0,
      links |-> {[globalId |-> "GH-1", url |-> "https://github.com/o/r/issues/1"]}] :
        st \in {"TO DO", "IN PROGRESS", "Blocked"}}

\* one issue of the batch, any project items, with or without its Jira issue
InitUpsert ==
    /\ SyncIdle
    /\ InitThrottle
    /\ InitResolver
    /\ InitReconcileIdle
    /\ \E items \in IssueItems : \E l \in {{}, {"kind/bug"}} :
          ghIssue = [title |-> "title", labels |-> l, projectItems |-> items,
                     globalId |-> "GH-1", url |-> "https://github.com/o/r/issues/1"]
    /\ jiraIssue \in {NoIssue} \cup ExistingIssues
    /\ sprintIds = {}
    /\ issueToCreate = [title |-> ""]
    /\ ustep = "syncSprints"
    /\ jiraCalls = <<>>

NextUpsert ==
    \/ UpsertSyncSprints
    \/ UpsertBuildParams
    \/ UpsertSearch
    \/ UpsertCreate
    \/ UpsertLink
    \/ UpsertEdit
    \/ UpsertGetIssue
    \/ UpsertGetTransitionId
    \/ UpsertDoTransition
    \/ UpsertMoveToSprint

UpsertSpec == InitUpsert /\ [][NextUpsert]_vars

\* ------------------------------------------------------------------------
\* Properties
\* ------------------------------------------------------------------------

\* the Jira issues that were created for a globalId
IssuesFor(globalId) ==
    {k \in 1..Len(jiraIssues) : jiraIssues[k].createdFor = globalId}

GlobalIds == {GlobalId(p, ghIssues[p][i]) : p \in Projects, i \in 1..MaxIssues}

\* the pass of p in this run upserted the batch the previous run upserted,
\* and no call of a pass of p has ever failed
SameBatchAgain(p) ==
    /\ CompletedPass(p)
    /\ prevIssues[p].done
    /\ prevIssues[p].issues = issues[p]
    /\ clean[p]

\* C1: when the issue upsert has run twice in succession over the same batch
\* without a failure, Jira holds exactly one issue per globalId of the batch
\* and the second run called createIssue for none of them.
C1_IdempotentUpsert ==
    \A p \in Projects :
        SameBatchAgain(p) =>
            /\ \A i \in 1..Len(issues[p]) :
                  Cardinality(IssuesFor(GlobalId(p, issues[p][i]))) = 1
            /\ created[p] = {}

C1_Witness ==
    \E p \in Projects : SameBatchAgain(p) /\ Len(issues[p]) > 1 /\ run = 2

\* C2: after any sequence of runs, failed writes included, Jira holds at most
\* one issue per globalId.
C2_AtMostOneIssuePerGlobalId ==
    \A k1, k2 \in 1..Len(jiraIssues) :
        jiraIssues[k1].createdFor = jiraIssues[k2].createdFor => k1 = k2

\* the results of the search of p in this run
Found(p) == SearchIssues(ghIssues[p], startDate[p])

\* C3: with maxBatchSize N > 0 the fetch returns at most N records, the first
\* N of the search in its order, and requests no page once N are accumulated.
C3_BatchCap ==
    /\ \A p \in fetched :
          maxBatchSize[p] > 0 =>
              /\ Len(issues[p]) <= maxBatchSize[p]
              /\ issues[p] = Slice(Found(p), maxBatchSize[p])
    /\ (pc = "sync" /\ step = "fetch" /\ maxBatchSize[cur] > 0) =>
          Len(previousIssues) < maxBatchSize[cur]

C3_Witness ==
    \E p \in fetched :
        /\ maxBatchSize[p] > 0
        /\ Len(Found(p)) > maxBatchSize[p]
        /\ Len(issues[p]) = maxBatchSize[p]

\* C4: with maxBatchSize = 0 the fetch returns all records of all pages.
C4_ZeroDisablesCap ==
    \A p \in fetched : maxBatchSize[p] = 0 => issues[p] = Found(p)

\* the watermark the next run of p starts from
Watermark(p) == OverrideAfterDate(syncYamlAfterDate[p], syncState, p)

\* C5: the afterDate a fetch produces is at least the start date it was given
\* and equals it when nothing was fetched; from run to run the watermark of a
\* project never decreases (sync-state.yaml being restored between the runs,
\* failed runs included).
C5_WatermarkMonotonic ==
    /\ [](\A p \in fetched :
            /\ afterDate[p] >= startDate[p]
            /\ Len(issues[p]) = 0 => afterDate[p] = startDate[p])
    /\ [][\A p \in Projects : Watermark(p)' >= Watermark(p)]_vars

C5_Witness ==
    /\ run = 2
    /\ pc = "done"
    /\ \E p \in fetched :
          /\ Len(issues[p]) = 0
          /\ startDate[p] > syncYamlAfterDate[p]
          /\ Watermark(p) = startDate[p]

MaxUpdatedAt(batch) ==
    CHOOSE t \in {batch[i].updatedAt : i \in 1..Len(batch)} :
        \A i \in 1..Len(batch) : batch[i].updatedAt <= t

\* the records of the search that the returned batch leaves out
Excluded(p) == {Found(p)[i] : i \in (Len(issues[p]) + 1)..Len(Found(p))}

\* C6: when a record is fetched the afterDate is the greatest updatedAt of the
\* returned batch, and it is not the updatedAt of a record the cap cut off.
C6_WatermarkOfIncluded ==
    \A p \in fetched :
        Len(issues[p]) > 0 =>
            /\ afterDate[p] = MaxUpdatedAt(issues[p])
            /\ \A r \in Excluded(p) : afterDate[p] /= r.updatedAt

\* part of C6 the code does satisfy: the afterDate is the greatest updatedAt
\* of the batch and never beyond a record the cap cut off
WatermarkWithinBatch ==
    \A p \in fetched :
        Len(issues[p]) > 0 =>
            /\ afterDate[p] = MaxUpdatedAt(issues[p])
            /\ \A r \in Excluded(p) : afterDate[p] <= r.updatedAt

\* C7: with a cap N > 0 and a repository that no longer changes, every issue
\* updated after the initial watermark is in the batch of some run.  When a
\* run fetches nothing for p no later run fetches anything either, so by then
\* every such issue must have been in a batch.
C7_CutOffRecordsFetchedLater ==
    \A p \in fetched :
        (maxBatchSize[p] > 0 /\ Len(issues[p]) = 0) =>
            \A i \in 1..Len(ghIssues[p]) :
                ghIssues[p][i].updatedAt > syncYamlAfterDate[p] =>
                    ghIssues[p][i].number \in fetchedEver[p]

\* C8: an error of createOrUpdateIssue without the throttling shape is caught
\* at its record, and every later record of the batch is processed in the
\* same run.
C8_LaterRecordsProcessed ==
    \A p \in Projects :
        pc \in {"done", "failed"} =>
            \A i \in otherFailed[p] :
                \A j \in (i + 1)..Len(issues[p]) : j \in processed[p]

\* the call of the try block rejected with the throttling shape
ThrottledFirst ==
    /\ pc = "sync" /\ step \in UpsertCalls /\ attempt = 1
    /\ failures' = failures + 1
    /\ otherFailed' = otherFailed

\* the call of the catch block threw
RetryFailed ==
    /\ pc = "sync" /\ step \in UpsertCalls /\ attempt = 2
    /\ (failures' = failures + 1 \/ otherFailed' /= otherFailed)

\* C9: a write that fails with the throttling shape is retried once after the
\* cool-down; when the retry fails too the record is skipped and the loop
\* goes on with the next record.
C9_ThrottlingRetriedOnce ==
    [][/\ ThrottledFirst => step' = "cooldown"
       /\ (pc = "sync" /\ step = "cooldown") =>
             (step' = "search" /\ attempt' = 2 /\ idx' = idx)
       /\ RetryFailed => (pc' = "sync" /\ idx' = idx + 1 /\ attempt' = 1)]_vars

\* C10: when the pass of a project fails, Sync.start still attempts every
\* later project, and the watermark of the failed project is not advanced.
C10_LaterProjectsAttempted ==
    /\ pc \in {"done", "failed"} => attempted = Projects
    /\ pc = "failed" => Watermark(cur) <= startDate[cur]

\* ------------------------------------------------------------------------
\* Failure of a run
\* ------------------------------------------------------------------------

\* C11: when no configuration is in error and a pass fails after other
\* projects of the run completed, the run is reported as failed and the
\* results of the completed projects are still emitted: they are the action
\* output, and the sync-state.yaml the run leaves holds them
C11_FailedRunEmitsProgress ==
    (/\ pc = "failed"
     /\ Len(results) > 0
     /\ \A p \in Projects : configError[p] = "none")
    => /\ output = [set |-> TRUE, value |-> results]
       /\ syncState.exists => syncState.syncProjects = results

\* C12: when the configuration of some sync project is in error (a mapping
\* table or a default is missing, or an issue type, the component or a field
\* does not exist in Jira), no call that changes Jira is made in the run
C12_ConfigErrorNothingSynchronized ==
    (\E p \in Projects : configError[p] /= "none") => ~written

\* ------------------------------------------------------------------------
\* ThrottleQueue
\* ------------------------------------------------------------------------

Increasing(s) == \A i, j \in 1..Len(s) : i < j => s[i] < s[j]

\* C13: the wrapped functions are started in the order the calls were
\* passed to throttle (calls are numbered in that order)
C13_DispatchInEnqueueOrder == Increasing(order)

\* three calls were started, in order, while none of them has settled
C13_Witness == Len(order) >= 3 /\ Len(completed) = 0

\* C14: at most one started function has not settled yet
C14_SingleInFlight == Cardinality(inFlight) <= 1

\* C15: between the start of a call and the start before it at least
\* IntervalMs ticks pass
C15_MinimumInterval == \A i \in 2..Len(gaps) : gaps[i] >= IntervalMs

\* a call passed to an idle queue was started after another call, and a
\* call was started while the call before it was still running
C15_Witness ==
    /\ \E i \in 2..Len(order) : enqueuedWhen[order[i]] = "idle"
    /\ \E i \in 2..Len(order) : order[i - 1] \in inFlight

\* C16: the promises throttle returned settle in the order the calls were
\* passed to throttle
C16_CompleteInEnqueueOrder == Increasing(completed)

\* C17: the promise throttle returned is resolved when the function
\* resolved, rejected when the function rejected or threw, pending until
\* then, and resolve or reject is called once for it
C17_OutcomePassedThrough ==
    \A c \in Calls :
       /\ fnOutcome[c] = "resolve" => promise[c] = "resolved"
       /\ fnOutcome[c] \in {"reject", "throw"} => promise[c] = "rejected"
       /\ fnOutcome[c] = "none" => promise[c] \in {"none", "pending"} /\ settles[c] = 0
       /\ fnOutcome[c] /= "none" => settles[c] = 1

\* one function resolved, one rejected and one threw
C17_Witness ==
    \E a, b, c \in Calls :
       fnOutcome[a] = "resolve" /\ fnOutcome[b] = "reject" /\ fnOutcome[c] = "throw"

Started(c) == \E i \in 1..Len(order) : order[i] = c

\* C18: every call passed to throttle is started at some later time, and
\* whenever the queue is empty isProcessing is false
C18_EveryCallDispatched ==
    /\ \A c \in Calls : (promise[c] /= "none") ~> Started(c)
    /\ [](Len(queue) = 0 => ~isProcessing)

\* a call passed to the idle queue, a call passed while a timer was pending
\* and a call passed from inside a running call were all started, one of
\* them after an earlier call was rejected, and the queue is idle again
C18_Witness ==
    /\ {enqueuedWhen[c] : c \in Calls} = {"idle", "pending", "nested"}
    /\ \A c \in Calls : Started(c)
    /\ \E c \in Calls : promise[c] = "rejected" /\ order[Len(order)] /= c
    /\ Len(queue) = 0 /\ ~isProcessing

\* C19: every call to Jira of a run is made on a client that passes it
\* through ThrottleQueue.throttle
C19_JiraCallsGoverned == ~ungoverned

\* ------------------------------------------------------------------------
\* Issue type resolution
\* ------------------------------------------------------------------------

Matching == {i \in 1..Len(issueTypeMapping) :
                issueTypeMapping[i].fromGithubLabel \in labels}

\* C20: the issue type returned is the toJira of the rule of smallest
\* position whose label is among the labels of the issue, the default when
\* there is no such rule, and in both cases a value is returned
C20_FirstMatchingRuleOrDefault ==
    issueType /= "unresolved" =>
       /\ issueType \in IssueTypes
       /\ IF Matching = {}
          THEN issueType = issueTypeDefault
          ELSE issueType = issueTypeMapping[SmallestOf(Matching)].toJira

\* two rules match and name different types that both differ from the
\* default: the first one was returned
C20_Witness ==
    /\ issueType /= "unresolved"
    /\ Cardinality(Matching) = 2
    /\ issueTypeMapping[1].toJira /= issueTypeMapping[2].toJira
    /\ issueTypeMapping[2].toJira /= issueTypeDefault
    /\ issueType = issueTypeMapping[1].toJira


\* ------------------------------------------------------------------------
\* Status resolution
\* ------------------------------------------------------------------------

OnBoard == {i \in 1..Len(projectItems) : projectItems[i].board = "configured"}

BoardStatus ==
    IF OnBoard = {} THEN "undefined" ELSE projectItems[SmallestOf(OnBoard)].status

MatchingStatus == {i \in 1..Len(statusMapping) :
                      statusMapping[i].fromGithub = BoardStatus}

\* C21: the status returned is the toJira of the rule of smallest position
\* whose fromGithub is, letter for letter, the status of the issue on the
\* configured board, and the default when there is no such rule or the
\* issue is not on the configured board or has no status there
C21_FirstExactRuleOrDefault ==
    jiraStatus /= "unresolved" =>
       IF MatchingStatus = {}
       THEN jiraStatus = statusDefault
       ELSE jiraStatus = statusMapping[SmallestOf(MatchingStatus)].toJira

\* the status on the board is "WIP", the first rule is for "wip", the
\* second for "WIP" and names another status: the second was returned
C21_Witness ==
    /\ jiraStatus /= "unresolved"
    /\ BoardStatus = "WIP"
    /\ Len(statusMapping) = 2
    /\ statusMapping[1].fromGithub = "wip"
    /\ statusMapping[2].fromGithub = "WIP"
    /\ statusMapping[1].toJira /= statusMapping[2].toJira
    /\ jiraStatus = statusMapping[2].toJira

\* ------------------------------------------------------------------------
\* Reconciliation of releases and sprints
\* ------------------------------------------------------------------------

NoDuplicates(q) == \A i, j \in 1..Len(q) : i < j => q[i] /= q[j]

NamesOf(list) == {list[i].name : i \in 1..Len(list)}

\* C22: in one reconciliation no release name and no sprint name is
\* created twice, no release and no sprint is updated twice, and nothing
\* that is created is also updated
C22_OneCallPerName ==
    /\ NoDuplicates(releaseCreates)
    /\ NoDuplicates(releaseUpdates)
    /\ NoDuplicates(sprintCreates)
    /\ NoDuplicates(sprintUpdates)
    /\ \A id \in SeqToSet(releaseUpdates) :
          releasesRead[id].name \notin SeqToSet(releaseCreates)
    /\ \A id \in SeqToSet(sprintUpdates) :
          sprintsRead[id].name \notin SeqToSet(sprintCreates)

\* both issues have the milestone v1 and the sprint S1 of the board, and
\* the reconciliation created one release and one sprint
C22_Witness ==
    /\ rstep = "returned"
    /\ ghBatch[1].milestone.title = ghBatch[2].milestone.title
    /\ ghBatch[1].sprint = ghBatch[2].sprint
    /\ releaseCreates = <<"p v1">>
    /\ sprintCreates = <<"S1">>

SharedMilestone ==
    /\ Len(ghBatch) = 2
    /\ ghBatch[1].milestone.id /= 0
    /\ ghBatch[1].milestone.title = ghBatch[2].milestone.title

ReleasesNamed(name) == {i \in 1..Len(jiraReleases) : jiraReleases[i].name = name}

\* C23: when both issues have the same milestone and Jira had no release of
\* the prefixed name, then once the issues are upserted Jira has exactly
\* one release of that name and the fixVersionId of both issues is its id
C23_OneReleaseBothLinked ==
    (/\ rstep = "returned"
     /\ round = 1
     /\ SharedMilestone
     /\ Prefixed(ghBatch[1].milestone.title) \notin NamesOf(releasesRead))
    => /\ Cardinality(ReleasesNamed(Prefixed(ghBatch[1].milestone.title))) = 1
       /\ \A i \in 1..Len(ghBatch) :
             fixVersionId[i] \in ReleasesNamed(Prefixed(ghBatch[1].milestone.title))

\* C24: when the releases are fetched again, and when the first issue is
\* upserted, no createRelease call is still running
C24_CreatesCompleteBeforeRefetch ==
    rstep \in {"refreshReleases", "upsert"} => pendingCreates = {}

\* C25: when the pass of the next project starts, no call of this project
\* is still running
C25_NoCallLeftRunning ==
    rstep = "nextProject" => pendingCreates = {}

ReleasesDone ==
    rstep \in {"getSprints", "createSprint", "updateSprint", "refreshSprints",
               "upsert", "returned", "nextProject"}

\* C28: after syncReleases, a release that Jira had under the prefixed name
\* of a milestone was updated exactly when its released flag or its release
\* date differed from the closed flag or the due day of the milestone
C28_UpdateWhenDiffers ==
    ReleasesDone =>
       \A m \in SeqToSet(Milestones(ghBatch)) :
          LET jiraRelease == FindByName(releasesRead, Prefixed(m.title))
              fromGithub == fromGithubMilestoneToJiraRelease(m)
          IN jiraRelease.id /= 0 =>
                ((jiraRelease.id \in SeqToSet(releaseUpdates))
                   <=> (\/ jiraRelease.released /= fromGithub.released
                        \/ jiraRelease.releaseDate /= fromGithub.releaseDate))

CreatesDone ==
    rstep \in {"updateSprint", "refreshSprints", "upsert", "returned", "nextProject"}

\* the titles of the sprints of the configured board that Jira did not list
AbsentSprints ==
    {ghBatch[i].sprint.title :
        i \in {j \in 1..Len(ghBatch) : /\ ghBatch[j].sprint.board = "configured"
                                        /\ ghBatch[j].sprint.title /= ""}}
    \ NamesOf(sprintsRead)

C30_SecondRoundSilent ==
    round > 1 =>
       /\ releaseCreates = <<>>
       /\ releaseUpdates = <<>>
       /\ sprintCreates = <<>>
       /\ sprintUpdates = <<>>

\* ------------------------------------------------------------------------
\* The persisted state
\* ------------------------------------------------------------------------

\* C26: when a run is done, its results are one entry for each configured
\* project in the order of the configuration, with the afterDate of the
\* pass, and sync-state.yaml holds these entries and no other
C26_StateReplaced ==
    pc = "done" =>
       /\ Len(results) = NumProjects
       /\ \A p \in Projects :
             results[p] = [syncProjectName |-> p, afterDate |-> afterDate[p]]
       /\ output = [set |-> TRUE, value |-> results]
       /\ syncState = [exists |-> TRUE, syncProjects |-> results]

\* the run that is done had read an entry of a project that is not configured
C26_Witness ==
    /\ pc = "done"
    /\ \E i \in 1..Len(syncStateYaml.syncProjects) :
          syncStateYaml.syncProjects[i].syncProjectName \notin Projects

EntriesOf(p) ==
    {i \in 1..Len(syncStateYaml.syncProjects) :
        syncStateYaml.syncProjects[i].syncProjectName = p}

LargestOf(S) == CHOOSE k \in S : \A j \in S : j <= k

\* C27: the start date of a project in a run is the afterDate of the entry
\* of the sync-state.yaml the run has read that carries its name (the last
\* one if there are several), and its configured afterDate when there is
\* no such entry, whatever other entries there are
C27_LowerBoundFromState ==
    pc = "sync" =>
       \A p \in Projects :
          startDate[p] = IF EntriesOf(p) = {}
                         THEN syncYamlAfterDate[p]
                         ELSE syncStateYaml.syncProjects[LargestOf(EntriesOf(p))].afterDate

\* the run has read an entry for the first project and an entry of a project
\* that is not configured: the second project starts at its configured date
C27_Witness ==
    /\ pc = "sync"
    /\ EntriesOf(1) /= {}
    /\ EntriesOf(2) = {}
    /\ EntriesOf(NumProjects + 1) /= {}
    /\ startDate[1] /= syncYamlAfterDate[1]
    /\ startDate[2] = syncYamlAfterDate[2]

\* ------------------------------------------------------------------------
\* The upsert of one issue
\* ------------------------------------------------------------------------

CallsNamed(call) == {i \in 1..Len(jiraCalls) : jiraCalls[i].call = call}

PastLink ==
    ustep \in {"edit", "getIssue", "getTransitions", "doTransition", "sprint",
               "returned", "threw"}

UpsertOver == ustep \in {"returned", "threw"}

\* C31: once createOrUpdateIssue is past the creation, the remote link with
\* the globalId and the url of the issue has been written, for an issue
\* created and for an issue found alike, and every editIssue, doTransition
\* and moveIssuesToSprintAndRank call comes after it
C31_LinkAppliedFirst ==
    /\ PastLink =>
          \E i \in CallsNamed("createOrUpdateRemoteIssueLink") :
             jiraCalls[i].arg = [globalId |-> ghIssue.globalId, url |-> ghIssue.url]
    /\ \A j \in CallsNamed("editIssue") \cup CallsNamed("doTransition")
                  \cup CallsNamed("moveIssuesToSprintAndRank") :
          \E i \in CallsNamed("createOrUpdateRemoteIssueLink") : i < j

\* the issue was found by the search, and it was linked again, edited,
\* moved to another status and put into its sprint, in that order
C31_Witness ==
    /\ ustep = "returned"
    /\ CallsNamed("createIssue") = {}
    /\ [i \in 1..Len(jiraCalls) |-> jiraCalls[i].call]
          = <<"createSprint", "createOrUpdateRemoteIssueLink", "editIssue",
              "getIssue", "doTransition", "moveIssuesToSprintAndRank">>

\* the status getIssue answered
StatusRead == jiraCalls[CHOOSE i \in CallsNamed("getIssue") : TRUE].arg

Differs == toLowerCase(StatusRead) /= toLowerCase(issueToCreate.status)

Offered ==
    \E t \in JiraTransitionTargets :
       toLowerCase(t) = toLowerCase(issueToCreate.status)

\* C32 as stated: when the upsert is over, doTransition was called exactly
\* when the status of the Jira issue differed, whatever the case of the
\* letters, from the status resolved, and it was called with a transition
\* to a status of that name
C32_TransitionIffDiffers ==
    (UpsertOver /\ CallsNamed("getIssue") /= {}) =>
       /\ (CallsNamed("doTransition") /= {}) <=> Differs
       /\ \A i \in CallsNamed("doTransition") :
             toLowerCase(jiraCalls[i].arg) = toLowerCase(issueToCreate.status)

\* C32 amended: when the upsert is over, doTransition was called exactly
\* when the status of the Jira issue differed, whatever the case of the
\* letters, from the status resolved and Jira offered a transition to a
\* status of that name; it was called once, with such a transition; when
\* the statuses differed and no such transition was offered the upsert threw
C32_TransitionWhenOffered ==
    (UpsertOver /\ CallsNamed("getIssue") /= {}) =>
       /\ (CallsNamed("doTransition") /= {}) <=> (Differs /\ Offered)
       /\ Cardinality(CallsNamed("doTransition")) <= 1
       /\ \A i \in CallsNamed("doTransition") :
             toLowerCase(jiraCalls[i].arg) = toLowerCase(issueToCreate.status)
       /\ (ustep = "threw") <=> (Differs /\ ~Offered)

\* the issue was in "TO DO", the status resolved is "In Progress", and the
\* transition to "IN PROGRESS" was made
C32_Witness ==
    /\ ustep = "returned"
    /\ StatusRead = "TO DO"
    /\ issueToCreate.status = "In Progress"
    /\ \E i \in CallsNamed("doTransition") : jiraCalls[i].arg = "IN PROGRESS"
    /\ jiraIssue.status = "IN PROGRESS"

\* the story points of the issue on the configured board
SourceStoryPoints ==
    LET own == SelectSeq(ghIssue.projectItems, LAMBDA p : p.board = "configured")
    IN IF Len(own) = 0 THEN <<>> ELSE own[1].storyPoints

\* C34: every editIssue writes the story points of the issue on the
\* configured board when it has some, and 1 when it has none, and every
\* upsert that is past the link, of an issue created or found, has edited
C34_StoryPointsOrOne ==
    /\ \A i \in CallsNamed("editIssue") :
          jiraCalls[i].arg = IF SourceStoryPoints = <<>> THEN 1
                             ELSE SourceStoryPoints[1]
    /\ ustep \in {"getIssue", "getTransitions", "doTransition", "sprint",
                  "returned", "threw"} => CallsNamed("editIssue") /= {}

\* C36: an issue is created with the project key of the configuration, the
\* title of the GitHub issue as summary and the issue type resolved from
\* the labels
C36_CreatedWithKeyTitleType ==
    \A i \in CallsNamed("createIssue") :
       jiraCalls[i].arg =
          [summary |-> ghIssue.title,
           project |-> JiraProjectKey,
           issuetype |-> IF "kind/bug" \in ghIssue.labels THEN "Bug" ELSE "Task"]

OwnItems == SelectSeq(ghIssue.projectItems, LAMBDA p : p.board = "configured")

\* C38: a sprint is created only when it is the sprint of an item of the
\* configured board, and the status, the story points and the sprint of
\* issueToCreate are those of the first item of the configured board; with
\* no such item the status is the default and there are no story points
\* and no sprint, whatever the items of other boards hold
C38_ConfiguredBoardOnly ==
    /\ \A i \in CallsNamed("createSprint") :
          \E k \in 1..Len(OwnItems) : OwnItems[k].sprint = jiraCalls[i].arg
    /\ ustep \notin {"idle", "syncSprints", "issueToCreate"} =>
          IF Len(OwnItems) = 0
          THEN /\ issueToCreate.status = statusTypeDefault
               /\ "storyPoints" \notin DOMAIN issueToCreate
               /\ issueToCreate.sprintBoardId = 0
          ELSE /\ issueToCreate.status
                     = getJiraStatusFromGithubProject(OwnItems[1].status)
               /\ "storyPoints" \in DOMAIN issueToCreate =>
                     issueToCreate.storyPoints = OwnItems[1].storyPoints[1]
               /\ issueToCreate.sprintBoardId
                     = IF OwnItems[1].sprint = "" THEN 0
                       ELSE NewSprintId(OwnItems[1].sprint)
    /\ jiraIssue.sprint /= 0 =>
          \E k \in 1..Len(OwnItems) : NewSprintId(OwnItems[k].sprint) = jiraIssue.sprint

\* the issue is on another board, in sprint S2 with 5 story points and
\* blocked, and then on the configured board, in sprint S1 with 3 story
\* points and in progress: Jira holds the latter
C38_Witness ==
    /\ ustep = "returned"
    /\ Len(ghIssue.projectItems) = 2
    /\ ghIssue.projectItems[1] = OtherItem
    /\ ghIssue.projectItems[2].board = "configured"
    /\ jiraIssue.sprint = 1
    /\ jiraIssue.storyPoints = 3
    /\ jiraIssue.status = "IN PROGRESS"

\* ------------------------------------------------------------------------
\* The loop over the issues of a batch
\* ------------------------------------------------------------------------

\* C33: when getTransitions answers and no transition leads to the status
\* resolved, no transition is made and the issue is not put into a sprint,
\* the call is not made again, and the loop goes on with the next issue
C33_MissingTransitionSkipsRecord ==
    [][(/\ pc = "sync" /\ step = "getTransitions"
        /\ failures' = failures
        /\ ~HasTransition(getJiraStatusFromGithubProject(Issue.status)))
       => /\ jiraIssues' = jiraIssues
          /\ pc' = "sync"
          /\ idx' = idx + 1
          /\ attempt' = 1]_vars

\* the afterDate of the batch of a project: the updatedAt of its last
\* issue, or the start date of the project when the batch is empty
BatchWatermark(p) ==
    IF Len(issues[p]) = 0 THEN startDate[p]
    ELSE issues[p][Len(issues[p])].updatedAt

\* C35: the afterDate of the result of a project is the one of its batch,
\* whether the upsert of some of its issues threw or not
C35_WatermarkOfBatch ==
    \A i \in 1..Len(results) :
       results[i].afterDate = BatchWatermark(results[i].syncProjectName)

\* the upsert of an issue of the first project threw and was skipped, and
\* the result of the project carries the updatedAt of its last issue
C35_Witness ==
    /\ Len(results) >= 1
    /\ otherFailed[1] /= {}
    /\ Len(issues[1]) = 2
    /\ results[1].afterDate = issues[1][2].updatedAt
    /\ results[1].afterDate > startDate[1]

\* the createOrUpdateIssue call of the issue at idx has returned, or has
\* thrown an error that the catch block of start swallowed
CallOver ==
    \/ step = "sprint"
    \/ step \in {"getIssue", "doTransition"}
          /\ SprintBoardId(sprints, Issue) = "none"
    \/ otherFailed'[cur] /= otherFailed[cur]

\* C37: the loop goes through the batch from the first issue to the last,
\* one position at a time, and it leaves an issue only when the call of
\* createOrUpdateIssue for it, the retry after the cool-down included, is
\* over; the issues processed so far are those up to the position of the loop
C37_OneRecordAtATime ==
    /\ [][(pc = "sync" /\ pc' = "sync" /\ idx' /= idx /\ idx' /= 0)
          => /\ idx' = idx + 1
             /\ idx > 0 => CallOver]_vars
    /\ [](pc = "sync" /\ idx > 0 =>
             processed[cur] = 1..Min(idx, Len(issues[cur])))

\* the upsert of the first issue was throttled, the retry after the
\* cool-down went through, and the loop is at the second issue
C37_Witness ==
    /\ pc = "sync" /\ run = 1 /\ cur = 1
    /\ idx = 2 /\ step = "search"
    /\ failures = 1
    /\ otherFailed[1] = {}
    /\ Len(jiraIssues) = 1

\* the awaits of start that may change Jira
MutatingSteps ==
    {"releases", "sprints", "create", "link", "edit", "doTransition", "sprint"}

\* C39: whenever the pass of a project is at a call that changes Jira, the
\* fetch of the project has returned in this run; a pass whose fetch
\* failed has created no issue and processed none
C39_FetchBeforeMutation ==
    /\ (pc = "sync" /\ step \in MutatingSteps) => cur \in fetched
    /\ (pc \in {"sync", "failed"} /\ cur \notin fetched) =>
          created[cur] = {} /\ processed[cur] = {}

\* the second page of the search of the first project failed: Jira holds
\* no issue and no sprint
C39_Witness ==
    /\ pc = "failed" /\ cur = 1
    /\ Len(previousIssues) = 1
    /\ 1 \notin fetched
    /\ jiraIssues = <<>>
    /\ jiraSprints[1] = {}

\* ------------------------------------------------------------------------
\* The timer chain of ThrottleQueue
\* ------------------------------------------------------------------------

\* C40: at most one setTimeout callback is pending; isProcessing is false
\* only when the queue is empty and no callback is pending; a throttle
\* call made while isProcessing is true, from outside or from inside the
\* function that is being started, sets no timer of its own
C40_OneTimerChain ==
    /\ [](Len(timers) <= 1)
    /\ [](~isProcessing => (queue = <<>> /\ timers = <<>>))
    /\ [][(enqueued' = enqueued + 1 /\ isProcessing) =>
             IF order' = order THEN timers' = timers
             ELSE Len(timers') <= 1]_vars

\* a call was passed to throttle while the timer was pending, another one
\* from inside the function that was being started, and one timer is pending
C40_Witness ==
    /\ \E c \in Calls : enqueuedWhen[c] = "pending"
    /\ \E c \in Calls : enqueuedWhen[c] = "nested"
    /\ Len(timers) = 1
    /\ isProcessing

====
